---- MODULE Spec2Model ----
(***************************************************************************)
(* ytstudio: a command-line client for a YouTube channel.  This module     *)
(* models the metric/dimension registry with its fuzzy matching, the       *)
(* `analytics query` command, the `videos update` / `videos               *)
(* search-replace` commands and the `comments publish` / `comments         *)
(* reject` commands, as state machines over the API requests they issue.   *)
(*                                                                         *)
(* A Python str is modelled as a sequence of one-character strings, so     *)
(* that lower(), len(), indexing and concatenation do what the code does.  *)
(***************************************************************************)
EXTENDS Integers, Sequences, FiniteSets, TLC

VARIABLES
  reg_op,            \* the registry function applied: "none" before the call
  reg_names,         \* its argument: the list of names (one name for a search)
  reg_max_distance,  \* the max_distance argument of a fuzzy search
  reg_result,        \* its return value
  registry           \* the globals of registry.py: METRICS, DIMENSIONS,
                     \* METRIC_GROUPS and DIMENSION_GROUPS

reg_vars == <<reg_op, reg_names, reg_max_distance, reg_result, registry>>

VARIABLES
  cmd,        \* the command of this invocation of the CLI
  args,       \* its options, as typer hands them to the command function
  pc,         \* where the command function is: "start", the request it is
              \* about to execute, or "exited"
  loc,        \* the local variables of the command function
  calls,      \* the API requests executed so far, each with what execute() did
  services,   \* the API services built so far
  output,     \* what has been printed so far
  exit_code   \* the exit status of the process; -1 while it runs

cli_vars == <<cmd, args, pc, loc, calls, services, output, exit_code>>

VARIABLES
  fn,                \* the library function called last: "none" before a call
  fn_args,           \* its arguments
  fn_result,         \* what it returned or raised
  raw,               \* ui._state["raw"]
  credentials_file,  \* the text of CREDENTIALS_FILE; None when there is no file
  fn_log,            \* the calls so far that write state (set_raw_output,
                     \* save_credentials, clear_credentials), with their arguments
  version_cache_file,  \* the text of VERSION_CACHE_FILE; None when there is no file
  clock              \* what datetime.now() reads, in hours since 1970-01-01T00

lib_vars ==
  <<fn, fn_args, fn_result, raw, credentials_file, fn_log, version_cache_file, clock>>

vars == <<reg_vars, cli_vars, lib_vars>>

(***************************************************************************)
(* registry.py: the registry data                                          *)
(***************************************************************************)

\* METRICS (registry.py:122-290), in definition order.
METRICS ==
  <<
    [name |-> <<"v","i","e","w","s">>, group |-> "views", core |-> TRUE, monetary |-> FALSE],
    [name |-> <<"e","n","g","a","g","e","d","V","i","e","w","s">>, group |-> "views", core |-> TRUE, monetary |-> FALSE],
    [name |-> <<"r","e","d","V","i","e","w","s">>, group |-> "views", core |-> FALSE, monetary |-> FALSE],
    [name |-> <<"v","i","e","w","e","r","P","e","r","c","e","n","t","a","g","e">>, group |-> "views", core |-> TRUE, monetary |-> FALSE],
    [name |-> <<"v","i","d","e","o","T","h","u","m","b","n","a","i","l","I","m","p","r","e","s","s","i","o","n","s">>, group |-> "reach", core |-> FALSE, monetary |-> FALSE],
    [name |-> <<"v","i","d","e","o","T","h","u","m","b","n","a","i","l","I","m","p","r","e","s","s","i","o","n","s","C","l","i","c","k","R","a","t","e">>, group |-> "reach", core |-> FALSE, monetary |-> FALSE],
    [name |-> <<"e","s","t","i","m","a","t","e","d","M","i","n","u","t","e","s","W","a","t","c","h","e","d">>, group |-> "watch_time", core |-> TRUE, monetary |-> FALSE],
    [name |-> <<"e","s","t","i","m","a","t","e","d","R","e","d","M","i","n","u","t","e","s","W","a","t","c","h","e","d">>, group |-> "watch_time", core |-> FALSE, monetary |-> FALSE],
    [name |-> <<"a","v","e","r","a","g","e","V","i","e","w","D","u","r","a","t","i","o","n">>, group |-> "watch_time", core |-> TRUE, monetary |-> FALSE],
    [name |-> <<"a","v","e","r","a","g","e","V","i","e","w","P","e","r","c","e","n","t","a","g","e">>, group |-> "watch_time", core |-> FALSE, monetary |-> FALSE],
    [name |-> <<"l","i","k","e","s">>, group |-> "engagement", core |-> TRUE, monetary |-> FALSE],
    [name |-> <<"d","i","s","l","i","k","e","s">>, group |-> "engagement", core |-> TRUE, monetary |-> FALSE],
    [name |-> <<"c","o","m","m","e","n","t","s">>, group |-> "engagement", core |-> TRUE, monetary |-> FALSE],
    [name |-> <<"s","h","a","r","e","s">>, group |-> "engagement", core |-> TRUE, monetary |-> FALSE],
    [name |-> <<"s","u","b","s","c","r","i","b","e","r","s","G","a","i","n","e","d">>, group |-> "engagement", core |-> TRUE, monetary |-> FALSE],
    [name |-> <<"s","u","b","s","c","r","i","b","e","r","s","L","o","s","t">>, group |-> "engagement", core |-> TRUE, monetary |-> FALSE],
    [name |-> <<"v","i","d","e","o","s","A","d","d","e","d","T","o","P","l","a","y","l","i","s","t","s">>, group |-> "engagement", core |-> FALSE, monetary |-> FALSE],
    [name |-> <<"v","i","d","e","o","s","R","e","m","o","v","e","d","F","r","o","m","P","l","a","y","l","i","s","t","s">>, group |-> "engagement", core |-> FALSE, monetary |-> FALSE],
    [name |-> <<"c","a","r","d","I","m","p","r","e","s","s","i","o","n","s">>, group |-> "cards", core |-> FALSE, monetary |-> FALSE],
    [name |-> <<"c","a","r","d","C","l","i","c","k","s">>, group |-> "cards", core |-> FALSE, monetary |-> FALSE],
    [name |-> <<"c","a","r","d","C","l","i","c","k","R","a","t","e">>, group |-> "cards", core |-> FALSE, monetary |-> FALSE],
    [name |-> <<"c","a","r","d","T","e","a","s","e","r","I","m","p","r","e","s","s","i","o","n","s">>, group |-> "cards", core |-> FALSE, monetary |-> FALSE],
    [name |-> <<"c","a","r","d","T","e","a","s","e","r","C","l","i","c","k","s">>, group |-> "cards", core |-> FALSE, monetary |-> FALSE],
    [name |-> <<"c","a","r","d","T","e","a","s","e","r","C","l","i","c","k","R","a","t","e">>, group |-> "cards", core |-> FALSE, monetary |-> FALSE],
    [name |-> <<"a","n","n","o","t","a","t","i","o","n","I","m","p","r","e","s","s","i","o","n","s">>, group |-> "annotations", core |-> FALSE, monetary |-> FALSE],
    [name |-> <<"a","n","n","o","t","a","t","i","o","n","C","l","i","c","k","s">>, group |-> "annotations", core |-> FALSE, monetary |-> FALSE],
    [name |-> <<"a","n","n","o","t","a","t","i","o","n","C","l","i","c","k","T","h","r","o","u","g","h","R","a","t","e">>, group |-> "annotations", core |-> TRUE, monetary |-> FALSE],
    [name |-> <<"a","n","n","o","t","a","t","i","o","n","C","l","o","s","a","b","l","e","I","m","p","r","e","s","s","i","o","n","s">>, group |-> "annotations", core |-> FALSE, monetary |-> FALSE],
    [name |-> <<"a","n","n","o","t","a","t","i","o","n","C","l","o","s","e","s">>, group |-> "annotations", core |-> FALSE, monetary |-> FALSE],
    [name |-> <<"a","n","n","o","t","a","t","i","o","n","C","l","o","s","e","R","a","t","e">>, group |-> "annotations", core |-> TRUE, monetary |-> FALSE],
    [name |-> <<"a","n","n","o","t","a","t","i","o","n","C","l","i","c","k","a","b","l","e","I","m","p","r","e","s","s","i","o","n","s">>, group |-> "annotations", core |-> FALSE, monetary |-> FALSE],
    [name |-> <<"e","s","t","i","m","a","t","e","d","R","e","v","e","n","u","e">>, group |-> "revenue", core |-> TRUE, monetary |-> TRUE],
    [name |-> <<"e","s","t","i","m","a","t","e","d","A","d","R","e","v","e","n","u","e">>, group |-> "revenue", core |-> FALSE, monetary |-> TRUE],
    [name |-> <<"g","r","o","s","s","R","e","v","e","n","u","e">>, group |-> "revenue", core |-> FALSE, monetary |-> TRUE],
    [name |-> <<"e","s","t","i","m","a","t","e","d","R","e","d","P","a","r","t","n","e","r","R","e","v","e","n","u","e">>, group |-> "revenue", core |-> FALSE, monetary |-> TRUE],
    [name |-> <<"m","o","n","e","t","i","z","e","d","P","l","a","y","b","a","c","k","s">>, group |-> "revenue", core |-> FALSE, monetary |-> TRUE],
    [name |-> <<"p","l","a","y","b","a","c","k","B","a","s","e","d","C","p","m">>, group |-> "revenue", core |-> FALSE, monetary |-> TRUE],
    [name |-> <<"a","d","I","m","p","r","e","s","s","i","o","n","s">>, group |-> "revenue", core |-> FALSE, monetary |-> TRUE],
    [name |-> <<"c","p","m">>, group |-> "revenue", core |-> FALSE, monetary |-> TRUE],
    [name |-> <<"p","l","a","y","l","i","s","t","V","i","e","w","s">>, group |-> "playlist", core |-> FALSE, monetary |-> FALSE],
    [name |-> <<"p","l","a","y","l","i","s","t","S","t","a","r","t","s">>, group |-> "playlist", core |-> FALSE, monetary |-> FALSE],
    [name |-> <<"v","i","e","w","s","P","e","r","P","l","a","y","l","i","s","t","S","t","a","r","t">>, group |-> "playlist", core |-> FALSE, monetary |-> FALSE],
    [name |-> <<"a","v","e","r","a","g","e","T","i","m","e","I","n","P","l","a","y","l","i","s","t">>, group |-> "playlist", core |-> FALSE, monetary |-> FALSE],
    [name |-> <<"p","l","a","y","l","i","s","t","S","a","v","e","s">>, group |-> "playlist", core |-> FALSE, monetary |-> FALSE],
    [name |-> <<"p","l","a","y","l","i","s","t","E","s","t","i","m","a","t","e","d","M","i","n","u","t","e","s","W","a","t","c","h","e","d">>, group |-> "playlist", core |-> FALSE, monetary |-> FALSE],
    [name |-> <<"p","l","a","y","l","i","s","t","A","v","e","r","a","g","e","V","i","e","w","D","u","r","a","t","i","o","n">>, group |-> "playlist", core |-> FALSE, monetary |-> FALSE],
    [name |-> <<"u","n","i","q","u","e","s">>, group |-> "audience", core |-> FALSE, monetary |-> FALSE]
  >>

\* DIMENSIONS (registry.py:295-367), in definition order.
DIMENSIONS ==
  <<
    [name |-> <<"d","a","y">>, group |-> "time", filter_only |-> FALSE],
    [name |-> <<"m","o","n","t","h">>, group |-> "time", filter_only |-> FALSE],
    [name |-> <<"c","o","u","n","t","r","y">>, group |-> "geographic", filter_only |-> FALSE],
    [name |-> <<"p","r","o","v","i","n","c","e">>, group |-> "geographic", filter_only |-> FALSE],
    [name |-> <<"c","i","t","y">>, group |-> "geographic", filter_only |-> FALSE],
    [name |-> <<"c","o","n","t","i","n","e","n","t">>, group |-> "geographic", filter_only |-> TRUE],
    [name |-> <<"s","u","b","C","o","n","t","i","n","e","n","t">>, group |-> "geographic", filter_only |-> TRUE],
    [name |-> <<"d","m","a">>, group |-> "geographic", filter_only |-> FALSE],
    [name |-> <<"v","i","d","e","o">>, group |-> "content", filter_only |-> FALSE],
    [name |-> <<"p","l","a","y","l","i","s","t">>, group |-> "content", filter_only |-> FALSE],
    [name |-> <<"g","r","o","u","p">>, group |-> "content", filter_only |-> TRUE],
    [name |-> <<"c","r","e","a","t","o","r","C","o","n","t","e","n","t","T","y","p","e">>, group |-> "content", filter_only |-> FALSE],
    [name |-> <<"i","n","s","i","g","h","t","T","r","a","f","f","i","c","S","o","u","r","c","e","T","y","p","e">>, group |-> "traffic", filter_only |-> FALSE],
    [name |-> <<"i","n","s","i","g","h","t","T","r","a","f","f","i","c","S","o","u","r","c","e","D","e","t","a","i","l">>, group |-> "traffic", filter_only |-> FALSE],
    [name |-> <<"p","l","a","y","b","a","c","k","L","o","c","a","t","i","o","n","T","y","p","e">>, group |-> "playback", filter_only |-> FALSE],
    [name |-> <<"l","i","v","e","O","r","O","n","D","e","m","a","n","d">>, group |-> "playback", filter_only |-> FALSE],
    [name |-> <<"d","e","v","i","c","e","T","y","p","e">>, group |-> "device", filter_only |-> FALSE],
    [name |-> <<"o","p","e","r","a","t","i","n","g","S","y","s","t","e","m">>, group |-> "device", filter_only |-> FALSE],
    [name |-> <<"a","g","e","G","r","o","u","p">>, group |-> "audience", filter_only |-> FALSE],
    [name |-> <<"g","e","n","d","e","r">>, group |-> "audience", filter_only |-> FALSE],
    [name |-> <<"s","u","b","s","c","r","i","b","e","d","S","t","a","t","u","s">>, group |-> "audience", filter_only |-> FALSE],
    [name |-> <<"y","o","u","t","u","b","e","P","r","o","d","u","c","t">>, group |-> "audience", filter_only |-> FALSE],
    [name |-> <<"s","h","a","r","i","n","g","S","e","r","v","i","c","e">>, group |-> "sharing", filter_only |-> FALSE],
    [name |-> <<"a","d","T","y","p","e">>, group |-> "ads", filter_only |-> FALSE]
  >>

\* list(METRICS.keys()) / list(DIMENSIONS.keys()): the names in definition
\* order (a dict keeps insertion order).
\* The order of str on the names of the groups.
GroupOrder ==
  <<"ads", "annotations", "audience", "cards", "content", "device", "engagement",
    "geographic", "playback", "playlist", "reach", "revenue", "sharing", "time",
    "traffic", "views", "watch_time">>

\* sorted(groups) for a set of group names.
sorted(groups) == SelectSeq(GroupOrder, LAMBDA g : g \in groups)

\* METRIC_GROUPS derived from the core metrics only.
METRIC_GROUPS_of_core_metrics ==
  sorted({METRICS[k].group : k \in {j \in 1..Len(METRICS) : METRICS[j].core}})

\* METRIC_GROUPS (registry.py:369).
METRIC_GROUPS == sorted({METRICS[k].group : k \in 1..Len(METRICS)})

\* DIMENSION_GROUPS (registry.py:370).
DIMENSION_GROUPS == sorted({DIMENSIONS[k].group : k \in 1..Len(DIMENSIONS)})

\* The globals of registry.py once the module is loaded.
Loaded ==
  [METRICS |-> METRICS, DIMENSIONS |-> DIMENSIONS,
   METRIC_GROUPS |-> METRIC_GROUPS, DIMENSION_GROUPS |-> DIMENSION_GROUPS]

\* list(METRICS.keys()) / list(DIMENSIONS.keys()) (registry.py:375, 380).
MetricKeys == [k \in 1..Len(registry.METRICS) |-> registry.METRICS[k].name]

DimensionKeys == [k \in 1..Len(registry.DIMENSIONS) |-> registry.DIMENSIONS[k].name]

\* `name in METRICS` / `name in DIMENSIONS`: an exact, case-sensitive key test.
InMetrics(name) == \E k \in 1..Len(registry.METRICS) : registry.METRICS[k].name = name

InDimensions(name) ==
  \E k \in 1..Len(registry.DIMENSIONS) : registry.DIMENSIONS[k].name = name

(***************************************************************************)
(* registry.py: fuzzy matching                                             *)
(***************************************************************************)

\* str.lower() on ASCII text: the upper-case letters and their images.
LowerOf ==
  [c \in {"A","B","C","D","E","F","G","H","I","J","K","L","M",
          "N","O","P","Q","R","S","T","U","V","W","X","Y","Z"} |->
     CASE c = "A" -> "a" [] c = "B" -> "b" [] c = "C" -> "c" [] c = "D" -> "d"
       [] c = "E" -> "e" [] c = "F" -> "f" [] c = "G" -> "g" [] c = "H" -> "h"
       [] c = "I" -> "i" [] c = "J" -> "j" [] c = "K" -> "k" [] c = "L" -> "l"
       [] c = "M" -> "m" [] c = "N" -> "n" [] c = "O" -> "o" [] c = "P" -> "p"
       [] c = "Q" -> "q" [] c = "R" -> "r" [] c = "S" -> "s" [] c = "T" -> "t"
       [] c = "U" -> "u" [] c = "V" -> "v" [] c = "W" -> "w" [] c = "X" -> "x"
       [] c = "Y" -> "y" [] c = "Z" -> "z"]

lower(s) == [k \in 1..Len(s) |-> IF s[k] \in DOMAIN LowerOf THEN LowerOf[s[k]] ELSE s[k]]

\* min3 leaving its third argument out.
min3_of_first_two(a, b, c) == IF a <= b THEN a ELSE b

\* min(a, b, c) (registry.py:411).
min3(a, b, c) == IF a <= b /\ a <= c THEN a ELSE IF b <= c THEN b ELSE c

\* The inner loop of _levenshtein (registry.py:407-411): curr_row holds the
\* cells 0..j-1 of the row of character c1; j is the code's 0-based index.
RECURSIVE LevInner(_, _, _, _, _)
LevInner(curr_row, prev_row, c1, s2, j) ==
  IF j >= Len(s2) THEN curr_row
  ELSE LET c2 == s2[j + 1]
           insertions == prev_row[j + 2] + 1
           deletions == curr_row[j + 1] + 1
           substitutions == prev_row[j + 1] + (IF c1 # c2 THEN 1 ELSE 0)
           appended == Append(curr_row, min3(insertions, deletions, substitutions))
       IN  CASE Len(appended) = j + 2 -> LevInner(appended, prev_row, c1, s2, j + 1)

\* The outer loop (registry.py:405-412): i is the code's 0-based index into s1.
RECURSIVE LevOuter(_, _, _, _)
LevOuter(prev_row, s1, s2, i) ==
  IF i >= Len(s1) THEN prev_row
  ELSE LET curr_row == LevInner(<<i + 1>>, prev_row, s1[i + 1], s2, 0)
       IN  CASE Len(curr_row) = Len(s2) + 1 -> LevOuter(curr_row, s1, s2, i + 1)

\* _levenshtein (registry.py:397-414), the longer string made s1 first.
RECURSIVE _levenshtein(_, _)
_levenshtein(s1, s2) ==
  IF Len(s1) < Len(s2) THEN _levenshtein(s2, s1)
  ELSE IF Len(s2) = 0 THEN Len(s1)
  ELSE LET prev_row == [k \in 1..(Len(s2) + 1) |-> k - 1]
           last_row == LevOuter(prev_row, s1, s2, 0)
       IN  last_row[Len(last_row)]

\* Python's None: a value distinct from every str (a str is a sequence of
\* one-character strings).
None == <<"<None>">>

\* The loop of _find_closest replacing the best candidate by a later one at
\* the same distance.
RECURSIVE FindClosestLoop_last_wins(_, _, _, _, _)
FindClosestLoop_last_wins(name, candidates, k, best, best_dist) ==
  IF k > Len(candidates) THEN [best |-> best, best_dist |-> best_dist]
  ELSE LET dist == _levenshtein(lower(name), lower(candidates[k]))
       IN  IF dist <= best_dist
           THEN FindClosestLoop_last_wins(name, candidates, k + 1, candidates[k],
                                          IF dist < best_dist THEN dist ELSE best_dist)
           ELSE FindClosestLoop_last_wins(name, candidates, k + 1, best, best_dist)

\* The loop of _find_closest (registry.py:388-392) from candidate k on, with
\* the best candidate and its distance so far.
RECURSIVE FindClosestLoop(_, _, _, _, _)
FindClosestLoop(name, candidates, k, best, best_dist) ==
  IF k > Len(candidates) THEN [best |-> best, best_dist |-> best_dist]
  ELSE LET dist == _levenshtein(lower(name), lower(candidates[k]))
       IN  IF dist < best_dist
           THEN FindClosestLoop(name, candidates, k + 1, candidates[k], dist)
           ELSE FindClosestLoop(name, candidates, k + 1, best, best_dist)

\* _find_closest with the threshold taken exclusively.
_find_closest_exclusive(name, candidates, max_distance) ==
  LET r == FindClosestLoop(name, candidates, 1, None, max_distance + 1)
  IN  IF r.best_dist < max_distance THEN r.best ELSE None

\* _find_closest (registry.py:383-394).
_find_closest(name, candidates, max_distance) ==
  LET r == FindClosestLoop(name, candidates, 1, None, max_distance + 1)
  IN  IF r.best_dist <= max_distance THEN r.best ELSE None

\* find_closest_metric (registry.py:373-375).
find_closest_metric(name, max_distance) == _find_closest(name, MetricKeys, max_distance)

\* find_closest_dimension (registry.py:378-380).
find_closest_dimension(name, max_distance) == _find_closest(name, DimensionKeys, max_distance)

\* The default of max_distance (registry.py:373, 378).
DefaultMaxDistance == 3

\* The pieces of the messages of validate_metrics / validate_dimensions.
UnknownMetricText == <<"U","n","k","n","o","w","n"," ","m","e","t","r","i","c"," ","'">>

UnknownDimensionText == <<"U","n","k","n","o","w","n"," ","d","i","m","e","n","s","i","o","n"," ","'">>

QuoteDotText == <<"'",".">>

DidYouMeanText == <<" ","D","i","d"," ","y","o","u"," ","m","e","a","n"," ","'">>

QuoteQuestionText == <<"'","?">>

\* `if suggestion:` -- None and the empty str are falsy.
Truthy(s) == s # None /\ s # <<>>

\* The message built without the test `if suggestion:`.
MetricErrorMessage_always_suggests(name, suggestion) ==
  UnknownMetricText \o name \o QuoteDotText \o
    DidYouMeanText \o (IF suggestion = None THEN <<"N","o","n","e">> ELSE suggestion) \o
    QuoteQuestionText

\* The message built at registry.py:423-425.
MetricErrorMessage(name, suggestion) ==
  UnknownMetricText \o name \o QuoteDotText \o
    (IF Truthy(suggestion) THEN DidYouMeanText \o suggestion \o QuoteQuestionText ELSE <<>>)

\* The message built at registry.py:436-438.
DimensionErrorMessage(name, suggestion) ==
  UnknownDimensionText \o name \o QuoteDotText \o
    (IF Truthy(suggestion) THEN DidYouMeanText \o suggestion \o QuoteQuestionText ELSE <<>>)

\* The loop of validate_metrics (registry.py:420-426) from names[k] on.
RECURSIVE ValidateMetricsLoop(_, _, _)
ValidateMetricsLoop(names, k, errors) ==
  IF k > Len(names) THEN errors
  ELSE IF ~InMetrics(names[k])
       THEN LET suggestion == find_closest_metric(names[k], DefaultMaxDistance)
            IN  ValidateMetricsLoop(names, k + 1,
                                    Append(errors, MetricErrorMessage(names[k], suggestion)))
       ELSE ValidateMetricsLoop(names, k + 1, errors)

\* validate_metrics returning at its first error.
validate_metrics_first_error(names) ==
  LET errors == ValidateMetricsLoop(names, 1, <<>>)
  IN  IF errors = <<>> THEN errors ELSE <<errors[1]>>

\* validate_metrics (registry.py:417-427).
validate_metrics(names) == ValidateMetricsLoop(names, 1, <<>>)

\* The loop of validate_dimensions (registry.py:433-439) from names[k] on.
RECURSIVE ValidateDimensionsLoop(_, _, _)
ValidateDimensionsLoop(names, k, errors) ==
  IF k > Len(names) THEN errors
  ELSE IF ~InDimensions(names[k])
       THEN LET suggestion == find_closest_dimension(names[k], DefaultMaxDistance)
            IN  ValidateDimensionsLoop(names, k + 1,
                                       Append(errors, DimensionErrorMessage(names[k], suggestion)))
       ELSE ValidateDimensionsLoop(names, k + 1, errors)

\* validate_dimensions finding every name known.
validate_dimensions_accepts_all(names) == <<>>

\* validate_dimensions (registry.py:430-440).
validate_dimensions(names) == ValidateDimensionsLoop(names, 1, <<>>)

(***************************************************************************)
(* api.py: executing a request                                             *)
(***************************************************************************)

\* An HttpError, by the two things the code reads of it: the status of the
\* response and the reason of its first error detail.
HttpErrors == [status : {403, 404}, reason : {"quotaExceeded", "forbidden", "notFound"}]

NoError == [status |-> 200, reason |-> ""]

\* What request.execute() can do: return the response, raise an HttpError,
\* or raise RefreshError (the session is expired or revoked).
Executions ==
  {[kind |-> "response", error |-> NoError, response |-> <<>>],
   [kind |-> "RefreshError", error |-> NoError, response |-> <<>>]}
    \cup {[kind |-> "HttpError", error |-> e, response |-> <<>>] : e \in HttpErrors}

Msg(kind, text) == [kind |-> kind, text |-> text]

\* handle_api_error that ends the process for every 403.
handle_api_error_any_403(error) ==
  IF error.status = 403
  THEN [kind |-> "SystemExit", output |-> <<Msg("quota_exceeded", <<>>)>>, value |-> 1]
  ELSE [kind |-> "raise", output |-> <<>>, value |-> error]

\* handle_api_error (api.py:18-36): SystemExit(1) after a message, or the
\* error raised again.  An error without details, or whose first detail has
\* no reason, has the reason "".
handle_api_error(error) ==
  IF error.status = 403 /\ error.reason = "quotaExceeded"
  THEN [kind |-> "SystemExit", output |-> <<Msg("quota_exceeded", <<>>)>>, value |-> 1]
  ELSE IF error.status = 403 /\ error.reason = "forbidden"
  THEN [kind |-> "SystemExit", output |-> <<Msg("access_denied", <<>>)>>, value |-> 1]
  ELSE [kind |-> "raise", output |-> <<>>, value |-> error]

\* api (api.py:39-53) on what execute() did: the response returned, SystemExit(1)
\* after a message, or the HttpError raised to the caller.
api(execution) ==
  CASE execution.kind = "response" ->
         [kind |-> "return", output |-> <<>>, value |-> execution.response]
    [] execution.kind = "HttpError" -> handle_api_error(execution.error)
    [] execution.kind = "RefreshError" ->
         [kind |-> "SystemExit", output |-> <<Msg("session_expired", <<>>)>>, value |-> 1]

\* The requests of a method among the requests cs.
CallsOfMethod(cs, method) == {i \in 1..Len(cs) : cs[i].method = method}

\* An executed request, as recorded in calls: the API method, its parameters,
\* what execute() did, and the pending change it was issued for (0: none).
Call(method, params, execution, change) ==
  [method |-> method, params |-> params, execution |-> execution, change |-> change]

\* The process ends with status code after printing text.
ExitWith(code, text) ==
  /\ pc' = "exited"
  /\ exit_code' = code
  /\ output' = output \o text

\* An exception nobody catches ends the process with status 1 and a traceback.
Crash(text, what) == ExitWith(1, text \o <<Msg("traceback", what)>>)

\* ApiEnds issuing the request again after a failure.
ApiEnds_retries(execution) ==
  /\ api(execution).kind # "return"
  /\ UNCHANGED <<pc, output, exit_code>>

\* The request at this pc is executed with `execution`; when api() does not
\* return, the process ends: SystemExit(1), or the HttpError propagating out
\* of the command function.
ApiEnds(execution) ==
  /\ api(execution).kind # "return"
  /\ IF api(execution).kind = "SystemExit"
     THEN ExitWith(1, api(execution).output)
     ELSE Crash(<<>>, <<"H","t","t","p","E","r","r","o","r">>)

(***************************************************************************)
(* Python's str(int) and datetime                                          *)
(***************************************************************************)

Digits == <<"0", "1", "2", "3", "4", "5", "6", "7", "8", "9">>

\* str(n) for n >= 0.
RECURSIVE str_nat(_)
str_nat(n) ==
  IF n < 10 THEN <<Digits[n + 1]>> ELSE Append(str_nat(n \div 10), Digits[(n % 10) + 1])

\* str(n).
str_int(n) == IF n < 0 THEN <<"-">> \o str_nat(-n) ELSE str_nat(n)

\* s padded with zeros on the left to the width (the %Y, %m, %d of strftime).
zfill(s, width) ==
  IF Len(s) >= width THEN s
  ELSE [k \in 1..width |-> IF k <= width - Len(s) THEN "0" ELSE s[k - (width - Len(s))]]

\* The date of a day, days being counted from 1970-01-01 (day 0), in the
\* proleptic Gregorian calendar of datetime.
civil_from_days(days) ==
  LET z == days + 719468
      era == z \div 146097
      doe == z - era * 146097
      yoe == (doe - doe \div 1460 + doe \div 36524 - doe \div 146096) \div 365
      doy == doe - (365 * yoe + yoe \div 4 - yoe \div 100)
      mp == (5 * doy + 2) \div 153
      month == IF mp < 10 THEN mp + 3 ELSE mp - 9
  IN  [year |-> yoe + era * 400 + (IF month <= 2 THEN 1 ELSE 0),
       month |-> month,
       day |-> doy - (153 * mp + 2) \div 5 + 1]

\* date.strftime("%Y-%m-%d") for the day.
strftime(days) ==
  LET d == civil_from_days(days)
  IN  zfill(str_nat(d.year), 4) \o <<"-">> \o zfill(str_nat(d.month), 2)
        \o <<"-">> \o zfill(str_nat(d.day), 2)

\* s[k..] starts with old.
MatchesAt(s, k, old) ==
  k + Len(old) - 1 <= Len(s) /\ SubSeq(s, k, k + Len(old) - 1) = old

\* str.replace for a non-empty old, from character k on.
RECURSIVE ReplaceLoop(_, _, _, _, _)
ReplaceLoop(s, old, new, k, out) ==
  IF k > Len(s) THEN out
  ELSE IF MatchesAt(s, k, old)
       THEN ReplaceLoop(s, old, new, k + Len(old), out \o new)
       ELSE ReplaceLoop(s, old, new, k + 1, Append(out, s[k]))

\* str.replace for the empty old: new before every character and at the end.
RECURSIVE Interleave(_, _)
Interleave(s, new) ==
  IF s = <<>> THEN new ELSE new \o <<Head(s)>> \o Interleave(Tail(s), new)

\* old_value.replace(search, replace) (videos.py:454).
replace(s, old, new) ==
  IF old = <<>> THEN Interleave(s, new) ELSE ReplaceLoop(s, old, new, 1, <<>>)

(***************************************************************************)
(* ui.py: format_number                                                    *)
(***************************************************************************)

\* n / unit is a float: the double nearest to the quotient.  Where the
\* quotient lies halfway between two one-decimal numbers, the rounding of
\* `.1f` goes by the side of it the double lies on.  The quotients whose
\* double lies above them:
QuotientAbove ==
  {
    <<1050, 1000>>, <<1350, 1000>>, <<1550, 1000>>, <<1850, 1000>>,
    <<2350, 1000>>, <<2450, 1000>>, <<2850, 1000>>, <<2950, 1000>>,
    <<99950, 1000>>, <<999950, 1000>>, <<1050000, 1000000>>, <<1350000, 1000000>>,
    <<99950000, 1000000>>, <<999950000, 1000000>> }

\* The quotients whose double lies below them.
QuotientBelow ==
  {
    <<1150, 1000>>, <<1450, 1000>>, <<1650, 1000>>, <<1950, 1000>>,
    <<2050, 1000>>, <<2150, 1000>>, <<2550, 1000>>, <<2650, 1000>>,
    <<3050, 1000>>, <<3150, 1000>>, <<1150000, 1000000>>, <<1450000, 1000000>> }

\* The side of the halfway quotient n / unit its double lies on; the double
\* is the quotient itself when the quotient is a multiple of 1/4.
DoubleSide(n, unit) ==
  IF n % (unit \div 4) = 0 THEN "exact"
  ELSE IF <<n, unit>> \in QuotientAbove THEN "above"
  ELSE CASE <<n, unit>> \in QuotientBelow -> "below"

\* format_1f cutting the further decimals off instead of rounding.
format_1f_truncates(n, unit) ==
  str_nat((n \div (unit \div 10)) \div 10) \o <<".">>
    \o <<Digits[((n \div (unit \div 10)) % 10) + 1]>>

\* f"{n / unit:.1f}" for n >= 0 and unit 1_000 or 1_000_000: the double
\* n / unit rounded to one decimal, to the even digit when the double lies
\* exactly halfway.
format_1f(n, unit) ==
  LET step == unit \div 10
      t == n \div step
      rem == n % step
      up == IF 2 * rem > step THEN TRUE
            ELSE IF 2 * rem < step THEN FALSE
            ELSE CASE DoubleSide(n, unit) = "above" -> TRUE
                   [] DoubleSide(n, unit) = "below" -> FALSE
                   [] DoubleSide(n, unit) = "exact" -> t % 2 = 1
      tenths == IF up THEN t + 1 ELSE t
  IN  str_nat(tenths \div 10) \o <<".">> \o <<Digits[(tenths % 10) + 1]>>

\* format_number (ui.py:37-44), reading _state["raw"].
format_number(n) ==
  IF raw THEN str_int(n)
  ELSE IF n >= 1000000 THEN format_1f(n, 1000000) \o <<"M">>
  ELSE IF n >= 1000 THEN format_1f(n, 1000) \o <<"K">>
  ELSE str_int(n)

(***************************************************************************)
(* commands/analytics.py: the raw query engine                             *)
(***************************************************************************)

\* The characters str.strip() removes.
Whitespace == {" ", "\t", "\n"}

RECURSIVE lstrip(_)
lstrip(s) == IF s # <<>> /\ Head(s) \in Whitespace THEN lstrip(Tail(s)) ELSE s

RECURSIVE rstrip(_)
rstrip(s) ==
  IF s # <<>> /\ s[Len(s)] \in Whitespace THEN rstrip(SubSeq(s, 1, Len(s) - 1)) ELSE s

strip(s) == rstrip(lstrip(s))

\* value.split(sep) for a one-character sep, from character k on: `current`
\* is the piece being read and `parts` the pieces closed so far.
RECURSIVE SplitLoop(_, _, _, _, _)
SplitLoop(value, sep, k, current, parts) ==
  IF k > Len(value) THEN Append(parts, current)
  ELSE IF value[k] = sep
       THEN SplitLoop(value, sep, k + 1, <<>>, Append(parts, current))
       ELSE SplitLoop(value, sep, k + 1, Append(current, value[k]), parts)

split(value, sep) == SplitLoop(value, sep, 1, <<>>, <<>>)

\* sep.join(parts).
RECURSIVE join(_, _)
join(sep, parts) ==
  IF parts = <<>> THEN <<>>
  ELSE IF Len(parts) = 1 THEN parts[1]
  ELSE parts[1] \o sep \o join(sep, Tail(parts))

\* _parse_comma_list (analytics.py:351-353).
_parse_comma_list(value) ==
  LET parts == split(value, ",")
      stripped == [k \in 1..Len(parts) |-> strip(parts[k])]
  IN  SelectSeq(stripped, LAMBDA v : v # <<>>)

\* `"==" in f`.
HasEqEq(f) == \E k \in 1..(Len(f) - 1) : f[k] = "=" /\ f[k + 1] = "="

\* The first filter of filter_list that is not of the form key==value
\* (analytics.py:478-481); 0 when there is none.
FirstBadFilter(filter_list) ==
  IF \E k \in 1..Len(filter_list) : ~HasEqEq(filter_list[k])
  THEN CHOOSE k \in 1..Len(filter_list) :
         /\ ~HasEqEq(filter_list[k])
         /\ \A h \in 1..(k - 1) : HasEqEq(filter_list[h])
  ELSE 0

\* QueryPrepare that joins the well-formed filters and drops the others.
QueryPrepare_skips_bad_filters(a) ==
  LET metric_names == _parse_comma_list(a.metrics_str)
      dimension_names == IF Truthy(a.dimensions_str)
                         THEN _parse_comma_list(a.dimensions_str) ELSE <<>>
  IN  IF \/ metric_names = <<>>
         \/ \E k \in 1..Len(metric_names) : ~InMetrics(metric_names[k])
         \/ \E k \in 1..Len(dimension_names) : ~InDimensions(dimension_names[k])
      THEN [status |-> "exit", output |-> <<Msg("error", <<>>)>>, metric_names |-> <<>>,
            dimension_names |-> <<>>, filters_str |-> None]
      ELSE [status |-> "ok", output |-> <<>>,
            metric_names |-> metric_names,
            dimension_names |-> dimension_names,
            filters_str |-> IF SelectSeq(a.filter_list, HasEqEq) # <<>>
                            THEN join(<<";">>, SelectSeq(a.filter_list, HasEqEq))
                            ELSE None]

\* Parse and validate, build filters (analytics.py:451-482): either the
\* messages printed before typer.Exit(1), or the parsed names and the filters
\* string.  No --filter option is the empty filter_list (typer hands None or
\* [], which `if filter_list:` treats alike).
QueryPrepare(a) ==
  LET metric_names == _parse_comma_list(a.metrics_str)
      metric_errors == validate_metrics(metric_names)
      dimension_names == IF Truthy(a.dimensions_str)
                         THEN _parse_comma_list(a.dimensions_str) ELSE <<>>
      dimension_errors == IF dimension_names # <<>>
                          THEN validate_dimensions(dimension_names) ELSE <<>>
      has_filters == a.filter_list # <<>>
      bad == IF has_filters THEN FirstBadFilter(a.filter_list) ELSE 0
      stop(text) == [status |-> "exit", output |-> text, metric_names |-> <<>>,
                     dimension_names |-> <<>>, filters_str |-> None]
  IN  IF metric_names = <<>>
      THEN stop(<<Msg("metric_required", <<>>)>>)
      ELSE IF metric_errors # <<>>
      THEN stop([k \in 1..Len(metric_errors) |-> Msg("error", metric_errors[k])]
                  \o <<Msg("see_metrics", <<>>)>>)
      ELSE IF dimension_errors # <<>>
      THEN stop([k \in 1..Len(dimension_errors) |-> Msg("error", dimension_errors[k])]
                  \o <<Msg("see_dimensions", <<>>)>>)
      ELSE IF bad # 0
      THEN stop(<<Msg("invalid_filter", a.filter_list[bad])>>)
      ELSE [status |-> "ok", output |-> <<>>,
            metric_names |-> metric_names,
            dimension_names |-> dimension_names,
            filters_str |-> IF has_filters THEN join(<<";">>, a.filter_list) ELSE None]

\* A value of a response row: a str, an int, or a float.  The floats are the
\* multiples of 1/8 (n eighths), which a double holds exactly.
StrCell(s) == [t |-> "str", s |-> s, n |-> 0]

IntCell(n) == [t |-> "int", s |-> <<>>, n |-> n]

FloatCell(eighths) == [t |-> "float", s |-> <<>>, n |-> eighths]

\* `sub in s`.
Contains(s, sub) ==
  \E k \in 1..(Len(s) - Len(sub) + 1) : SubSeq(s, k, k + Len(sub) - 1) = sub

\* The digits of a fraction given in thousandths, without trailing zeros.
FractionDigits(thousandths) ==
  IF thousandths % 100 = 0 THEN <<Digits[(thousandths \div 100) + 1]>>
  ELSE IF thousandths % 10 = 0
  THEN <<Digits[(thousandths \div 100) + 1], Digits[((thousandths \div 10) % 10) + 1]>>
  ELSE <<Digits[(thousandths \div 100) + 1], Digits[((thousandths \div 10) % 10) + 1],
         Digits[(thousandths % 10) + 1]>>

\* str(value) for a float of so many eighths (not negative).
float_str(eighths) ==
  str_nat(eighths \div 8) \o <<".">> \o FractionDigits((eighths % 8) * 125)

\* 10 ** places.
Pow10(places) == IF places = 1 THEN 10 ELSE 100

\* f"{value:.<places>f}" for a float of so many eighths (not negative) and
\* places 1 or 2: rounded to the nearest, a halfway value to the even digit.
format_f(eighths, places) ==
  LET num == eighths * Pow10(places)
      t == num \div 8
      rem == num % 8
      r == IF rem > 4 \/ (rem = 4 /\ t % 2 = 1) THEN t + 1 ELSE t
  IN  str_nat(r \div Pow10(places)) \o <<".">>
        \o zfill(str_nat(r % Pow10(places)), places)

\* str(value) of a cell value.
cell_str(value) ==
  CASE value.t = "str" -> value.s
    [] value.t = "int" -> str_int(value.n)
    [] value.t = "float" -> float_str(value.n)

\* The header names a column of percentages.
IsPercentHeader(header) ==
  \/ Contains(lower(header), <<"r","a","t","e">>)
  \/ Contains(lower(header), <<"p","e","r","c","e","n","t","a","g","e">>)
  \/ Contains(lower(header), <<"c","t","r">>)

\* The header names a column of a currency.
IsCurrencyHeader(header) == Contains(lower(header), <<"c","p","m">>)

\* _format_cell (analytics.py:394-404).
_format_cell(header, value) ==
  IF value.t = "float"
  THEN IF IsPercentHeader(header) THEN format_f(value.n, 2) \o <<"%">>
       ELSE IF IsCurrencyHeader(header) THEN <<"$">> \o format_f(value.n, 2)
       ELSE format_f(value.n, 1)
  ELSE IF value.t = "int" THEN format_number(value.n)
  ELSE cell_str(value)

\* The smaller of two numbers.
Min(a, b) == IF a < b THEN a ELSE b

\* dict(pairs) from pair k on: a key met again keeps its place and takes the
\* new value.
RECURSIVE DictLoop(_, _, _)
DictLoop(pairs, k, d) ==
  IF k > Len(pairs) THEN d
  ELSE IF \E h \in 1..Len(d) : d[h][1] = pairs[k][1]
       THEN DictLoop(pairs, k + 1,
                     [h \in 1..Len(d) |-> IF d[h][1] = pairs[k][1] THEN pairs[k] ELSE d[h]])
       ELSE DictLoop(pairs, k + 1, Append(d, pairs[k]))

\* dict(zip(headers, row, strict=False)): a dict is the sequence of its
\* <<key, value>> pairs in insertion order.
dict_zip(headers, row) ==
  DictLoop([i \in 1..Min(Len(headers), Len(row)) |-> <<headers[i], row[i]>>], 1, <<>>)

\* A field as csv.writer writes it (excel dialect, QUOTE_MINIMAL): quoted
\* when it holds the delimiter, the quote character or a line break, and
\* when it is the empty only field of its row.
csv_field(text, only) ==
  IF (\E k \in 1..Len(text) : text[k] \in {",", "\"", "\r", "\n"}) \/ (only /\ text = <<>>)
  THEN <<"\"">> \o replace(text, <<"\"">>, <<"\"", "\"">>) \o <<"\"">>
  ELSE text

\* writer.writerow(row): the fields joined by commas and ended by \r\n.
csv_row(texts) ==
  join(<<",">>, [i \in 1..Len(texts) |-> csv_field(texts[i], Len(texts) = 1)])
    \o <<"\r", "\n">>

\* The concatenation of the texts.
RECURSIVE concat(_)
concat(texts) == IF texts = <<>> THEN <<>> ELSE Head(texts) \o concat(Tail(texts))

\* _format_query_response that leaves the last row out.
_format_query_response_drops_last_row(response, out) ==
  LET headers == response.headers
      rows == SubSeq(response.rows, 1, Len(response.rows) - 1)
  IN  IF out = "json"
      THEN <<Msg("json", [k \in 1..Len(rows) |-> dict_zip(headers, rows[k])])>>
      ELSE <<Msg("csv", csv_row(headers)
                         \o concat([k \in 1..Len(rows) |->
                                     csv_row([i \in 1..Len(rows[k]) |-> cell_str(rows[k][i])])]))>>

\* _format_query_response (analytics.py:356-391): what is printed.  The JSON
\* document is given by its records, the table by its header and cells.
_format_query_response(response, out) ==
  LET headers == response.headers
      rows == response.rows
  IN  IF out = "json"
      THEN <<Msg("json", [k \in 1..Len(rows) |-> dict_zip(headers, rows[k])])>>
      ELSE IF out = "csv"
      THEN <<Msg("csv", csv_row(headers)
                         \o concat([k \in 1..Len(rows) |->
                                     csv_row([i \in 1..Len(rows[k]) |-> cell_str(rows[k][i])])]))>>
      ELSE IF rows = <<>>
      THEN <<Msg("no_data", <<>>)>>
      ELSE <<Msg("table",
                 [headers |-> headers,
                  cells |-> [k \in 1..Len(rows) |->
                              [i \in 1..Len(rows[k]) |-> _format_cell(headers[i], rows[k][i])]]])>>

\* The rows reports.query can answer with.
MaxRows == 2

\* The value of a column in sample row r: a dimension is a str (plain, with
\* a comma, with a quote), a metric an int or a float.
SampleCell(header, r) ==
  IF InDimensions(header)
  THEN StrCell(CASE r = 1 -> <<"2","0","2","6","-","0","1","-","0","1">>
                 [] r = 2 -> <<"a",",","b">>
                 [] r = 3 -> <<"q","\"","t">>)
  ELSE CASE r = 1 -> IntCell(1500)
         [] r = 2 -> FloatCell(37)
         [] r = 3 -> FloatCell(360)

\* Invocations that vary --output, over columns of percentages, of a
\* currency and of neither.
QueryOutputArgs ==
  [metrics_str : {<<"v","i","e","w","s",",","c","p","m">>, <<"c","a","r","d","C","l","i","c","k","R","a","t","e">>},
   dimensions_str : {None, <<"d","a","y">>},
   filter_list : {<<>>},
   start : {None},
   end : {None},
   days : {28},
   sort : {None},
   limit : {<<>>},
   currency : {None},
   output : {"table", "json", "csv"}]

\* The responses of reports.query to the query: the columns are the
\* dimensions and then the metrics asked for.  Every list of at most
\* MaxRows sample rows is answered to the invocations with varied rows, one
\* row to the others.
QueryResponses(l, varied) ==
  LET headers == l.dimension_names \o l.metric_names
      row(r) == [i \in 1..Len(headers) |-> SampleCell(headers[i], r)]
  IN  {[headers |-> headers, rows |-> [k \in 1..Len(rs) |-> row(rs[k])]] :
         rs \in IF varied THEN UNION {[1..n -> 1..3] : n \in 0..MaxRows} ELSE {<<1>>}}

\* The channel the credentials belong to, as channels.list(mine=True) names it.
ChannelId == <<"U","C","1">>

\* The keys query_params gets (analytics.py:496-512).
QueryParamKeys(a, l) ==
  {"ids", "startDate", "endDate", "metrics"}
    \cup (IF l.dimension_names # <<>> THEN {"dimensions"} ELSE {})
    \cup (IF Truthy(l.filters_str) THEN {"filters"} ELSE {})
    \cup (IF Truthy(a.sort) THEN {"sort"} ELSE {})
    \cup (IF a.limit # <<>> /\ a.limit[1] # 0 THEN {"maxResults"} ELSE {})
    \cup (IF Truthy(a.currency) THEN {"currency"} ELSE {})

\* query_params (analytics.py:496-512): a dict, modelled as a function of
\* the keys it has.
QueryParams(a, l, channel_id) ==
  [key \in QueryParamKeys(a, l) |->
     CASE key = "ids" -> <<"c","h","a","n","n","e","l","=","=">> \o channel_id
       [] key = "startDate" -> l.start_date
       [] key = "endDate" -> l.end_date
       [] key = "metrics" -> join(<<",">>, l.metric_names)
       [] key = "dimensions" -> join(<<",">>, l.dimension_names)
       [] key = "filters" -> l.filters_str
       [] key = "sort" -> a.sort
       [] key = "maxResults" -> a.limit[1]
       [] key = "currency" -> a.currency]

\* The days datetime.now() can show: 2024-03-01 and 2026-01-01.
Todays == {19783, 20454}

\* end_date (analytics.py:485), the clock showing the day `now`.
QueryEndDate(a, now) == IF Truthy(a.end) THEN a.end ELSE strftime(now)

\* start_date always built from --days.
QueryStartDate_ignores_start(a, now) == strftime(now - a.days)

\* start_date (analytics.py:486), the clock showing the day `now`.
QueryStartDate(a, now) == IF Truthy(a.start) THEN a.start ELSE strftime(now - a.days)

\* query (analytics.py:451-494) up to its first request: validation, the
\* dates, then get_services (analytics.py:77-84) with
\* get_authenticated_service (api.py:135-140).  demo: the process runs in
\* demo mode; creds: stored credentials exist; now: the day datetime.now()
\* shows when end_date is built; tick: the days gone by (midnight passing)
\* when start_date is built.
QueryStart ==
  /\ cmd = "query"
  /\ pc = "start"
  /\ LET p == QueryPrepare(args)
     IN  IF p.status = "exit"
         THEN /\ ExitWith(1, p.output)
              /\ UNCHANGED <<loc, services>>
         ELSE \E demo \in BOOLEAN, creds \in BOOLEAN :
                IF demo
                THEN /\ ExitWith(1, <<Msg("analytics_unavailable", <<>>)>>)
                     /\ UNCHANGED <<loc, services>>
                ELSE IF ~creds
                THEN /\ ExitWith(1, <<Msg("not_authenticated", <<>>)>>)
                     /\ UNCHANGED <<loc, services>>
                ELSE \E now \in Todays, tick \in 0..1 :
                     /\ services' = {"youtube", "youtubeAnalytics"}
                     /\ loc' = [metric_names |-> p.metric_names,
                                dimension_names |-> p.dimension_names,
                                filters_str |-> p.filters_str,
                                now_end |-> now,
                                now_start |-> now + tick,
                                end_date |-> QueryEndDate(args, now),
                                start_date |-> QueryStartDate(args, now + tick)]
                     /\ pc' = "query:channels.list"
                     /\ UNCHANGED <<output, exit_code>>
  /\ UNCHANGED <<cmd, args, calls>>
  /\ UNCHANGED <<reg_vars, lib_vars>>

\* get_channel_id (analytics.py:87-92), called at analytics.py:494.
QueryChannelLookup ==
  /\ cmd = "query"
  /\ pc = "query:channels.list"
  /\ \E execution \in Executions, has_channel \in BOOLEAN :
       /\ calls' = Append(calls, Call("channels.list", [mine |-> TRUE], execution, 0))
       /\ IF api(execution).kind = "return"
          THEN IF has_channel
               THEN /\ pc' = "query:reports.query"
                    /\ UNCHANGED <<output, exit_code>>
               ELSE ExitWith(1, <<Msg("no_channel", <<>>)>>)
          ELSE ApiEnds(execution)
  /\ UNCHANGED <<cmd, args, loc, services>>
  /\ UNCHANGED <<reg_vars, lib_vars>>

\* The reports.query request and the printing of its response
\* (analytics.py:496-516).
QueryReport ==
  /\ cmd = "query"
  /\ pc = "query:reports.query"
  /\ \E e \in Executions, response \in QueryResponses(loc, args \in QueryOutputArgs) :
       LET execution == IF e.kind = "response" THEN [e EXCEPT !.response = response] ELSE e
       IN  /\ e.kind # "response" => response.rows = <<>>
           /\ calls' = Append(calls, Call("reports.query", QueryParams(args, loc, ChannelId),
                                          execution, 0))
           /\ IF api(execution).kind = "return"
              THEN ExitWith(0, _format_query_response(api(execution).value, args.output))
              ELSE ApiEnds(execution)
  /\ UNCHANGED <<cmd, args, loc, services>>
  /\ UNCHANGED <<reg_vars, lib_vars>>

(***************************************************************************)
(* commands/analytics.py: the discovery commands                           *)
(***************************************************************************)

\* --group not given (typer hands None to the command function).
NoGroup == "<None>"

\* `if group:` -- None and the empty str are falsy.
GroupGiven(group) == group \notin {NoGroup, ""}

\* METRICS[name] / DIMENSIONS[name].
MetricOf(name) ==
  registry.METRICS[CHOOSE k \in 1..Len(registry.METRICS) : registry.METRICS[k].name = name]

DimensionOf(name) ==
  registry.DIMENSIONS[CHOOSE k \in 1..Len(registry.DIMENSIONS) :
                         registry.DIMENSIONS[k].name = name]

\* The tags of a metric in the detail view and in the table
\* (analytics.py:563-567, 616-620).
MetricTags(m) ==
  (IF m.core THEN <<"core">> ELSE <<>>) \o (IF m.monetary THEN <<"monetary">> ELSE <<>>)

\* The footer of a listing without --group (analytics.py:625-627, 722-724).
GroupsFooter(group, groups) ==
  IF ~GroupGiven(group)
  THEN <<Msg("groups", groups), Msg("filter_with_group", <<>>)>>
  ELSE <<>>

\* list_metrics (analytics.py:522-628); the descriptions are left out.
ListMetrics ==
  /\ cmd = "metrics"
  /\ pc = "start"
  /\ IF Truthy(args.name)
     THEN IF ~InMetrics(args.name)
          THEN LET suggestion == find_closest_metric(args.name, DefaultMaxDistance)
               IN  ExitWith(1, <<Msg("unknown_metric", args.name)>>
                                 \o (IF Truthy(suggestion)
                                     THEN <<Msg("did_you_mean", suggestion)>> ELSE <<>>))
          ELSE LET m == MetricOf(args.name)
               IN  IF args.output = "json"
                   THEN ExitWith(0, <<Msg("json", m)>>)
                   ELSE ExitWith(0, <<Msg("detail", [name |-> m.name, group |-> m.group,
                                                      tags |-> MetricTags(m)])>>)
     ELSE IF GroupGiven(args.group) /\ ~(\E k \in 1..Len(registry.METRIC_GROUPS) :
                                            registry.METRIC_GROUPS[k] = args.group)
     THEN ExitWith(1, <<Msg("unknown_group", [group |-> args.group,
                                              available |-> registry.METRIC_GROUPS])>>)
     ELSE LET filtered == IF GroupGiven(args.group)
                          THEN SelectSeq(registry.METRICS, LAMBDA m : m.group = args.group)
                          ELSE registry.METRICS
          IN  IF args.output = "json"
              THEN ExitWith(0, <<Msg("json", filtered)>>)
              ELSE ExitWith(0,
                     <<Msg("title", args.group),
                       Msg("table", [k \in 1..Len(filtered) |->
                                       [name |-> filtered[k].name, group |-> filtered[k].group,
                                        tags |-> MetricTags(filtered[k])]])>>
                       \o GroupsFooter(args.group, registry.METRIC_GROUPS))
  /\ UNCHANGED <<cmd, args, loc, calls, services>>
  /\ UNCHANGED <<reg_vars, lib_vars>>

\* list_dimensions (analytics.py:631-725); the descriptions are left out.
ListDimensions ==
  /\ cmd = "dimensions"
  /\ pc = "start"
  /\ IF Truthy(args.name)
     THEN IF ~InDimensions(args.name)
          THEN LET suggestion == find_closest_dimension(args.name, DefaultMaxDistance)
               IN  ExitWith(1, <<Msg("unknown_dimension", args.name)>>
                                 \o (IF Truthy(suggestion)
                                     THEN <<Msg("did_you_mean", suggestion)>> ELSE <<>>))
          ELSE LET d == DimensionOf(args.name)
               IN  IF args.output = "json"
                   THEN ExitWith(0, <<Msg("json", d)>>)
                   ELSE ExitWith(0, <<Msg("detail", [name |-> d.name, group |-> d.group,
                                                      tags |-> IF d.filter_only
                                                               THEN <<"filter only">>
                                                               ELSE <<>>])>>)
     ELSE IF GroupGiven(args.group) /\ ~(\E k \in 1..Len(registry.DIMENSION_GROUPS) :
                                            registry.DIMENSION_GROUPS[k] = args.group)
     THEN ExitWith(1, <<Msg("unknown_group", [group |-> args.group,
                                              available |-> registry.DIMENSION_GROUPS])>>)
     ELSE LET filtered == IF GroupGiven(args.group)
                          THEN SelectSeq(registry.DIMENSIONS, LAMBDA d : d.group = args.group)
                          ELSE registry.DIMENSIONS
          IN  IF args.output = "json"
              THEN ExitWith(0, <<Msg("json", filtered)>>)
              ELSE ExitWith(0,
                     <<Msg("title", args.group),
                       Msg("table", [k \in 1..Len(filtered) |->
                                       [name |-> filtered[k].name, group |-> filtered[k].group,
                                        tags |-> IF filtered[k].filter_only
                                                 THEN <<"filter">> ELSE <<>>]])>>
                       \o GroupsFooter(args.group, registry.DIMENSION_GROUPS))
  /\ UNCHANGED <<cmd, args, loc, calls, services>>
  /\ UNCHANGED <<reg_vars, lib_vars>>

(***************************************************************************)
(* commands/videos.py: update                                              *)
(***************************************************************************)

\* get_service (videos.py:60-63) with get_authenticated_service
\* (api.py:135-140): in demo mode the service is None, and the first use of
\* it raises AttributeError; without stored credentials typer.Exit(1).
\* Otherwise the service is built and the command goes on at next_pc.
GetService(demo, creds, next_pc) ==
  IF demo
  THEN /\ Crash(<<>>, <<"A","t","t","r","i","b","u","t","e","E","r","r","o","r">>)
       /\ UNCHANGED services
  ELSE IF ~creds
  THEN /\ ExitWith(1, <<Msg("not_authenticated", <<>>)>>)
       /\ UNCHANGED services
  ELSE /\ services' = {"youtube"}
       /\ pc' = next_pc
       /\ UNCHANGED <<output, exit_code>>

\* update (videos.py:362-368) up to its first request.
UpdateStart ==
  /\ cmd = "update"
  /\ pc = "start"
  /\ IF ~(Truthy(args.title) \/ Truthy(args.description) \/ Truthy(args.tags))
     THEN /\ ExitWith(1, <<Msg("nothing_to_update", <<>>)>>)
          /\ UNCHANGED services
     ELSE \E demo \in BOOLEAN, creds \in BOOLEAN : GetService(demo, creds, "update:videos.list")
  /\ UNCHANGED <<cmd, args, loc, calls>>
  /\ UNCHANGED <<reg_vars, lib_vars>>

\* update (videos.py:370-390): the current snippet is fetched; without
\* --execute the changes are previewed and the command returns.
UpdateFetch ==
  /\ cmd = "update"
  /\ pc = "update:videos.list"
  /\ \E execution \in Executions, found \in BOOLEAN :
       /\ calls' = Append(calls, Call("videos.list", [id |-> args.video_id], execution, 0))
       /\ IF api(execution).kind = "return"
          THEN IF ~found
               THEN ExitWith(1, <<Msg("video_not_found", <<>>)>>)
               ELSE IF ~args.execute
               THEN ExitWith(0, <<Msg("preview", <<>>), Msg("run_with_execute", <<>>)>>)
               ELSE pc' = "update:videos.update" /\ UNCHANGED <<output, exit_code>>
          ELSE ApiEnds(execution)
  /\ UNCHANGED <<cmd, args, loc, services>>
  /\ UNCHANGED <<reg_vars, lib_vars>>

\* update (videos.py:392-403): the videos.update request.
UpdateWrite ==
  /\ cmd = "update"
  /\ pc = "update:videos.update"
  /\ \E execution \in Executions :
       /\ calls' = Append(calls, Call("videos.update", [id |-> args.video_id], execution, 0))
       /\ IF api(execution).kind = "return"
          THEN ExitWith(0, <<Msg("updated", <<>>)>>)
          ELSE ApiEnds(execution)
  /\ UNCHANGED <<cmd, args, loc, services>>
  /\ UNCHANGED <<reg_vars, lib_vars>>

(***************************************************************************)
(* commands/videos.py: search-replace                                      *)
(***************************************************************************)

\* The channel has at most MaxVideos videos.
MaxVideos == 3

\* The values the searched field of a video can have.
FieldValues == { <<"a","b">>, <<"b">> }

\* The for loop over the videos of a page without its test of the limit.
RECURSIVE CollectChanges_ignores_limit(_, _, _, _)
CollectChanges_ignores_limit(videos, k, a, changes) ==
  IF k > Len(videos) THEN changes
  ELSE LET old_value == videos[k].value
           new_value == replace(old_value, a.search, a.replace)
       IN  IF new_value # old_value
           THEN CollectChanges_ignores_limit(videos, k + 1, a,
                  Append(changes, [id |-> videos[k].id, field |-> a.field,
                                   old |-> old_value, new |-> new_value]))
           ELSE CollectChanges_ignores_limit(videos, k + 1, a, changes)

\* The for loop over the videos of a page (videos.py:446-464) from video k
\* on: a change is collected for every video whose field value the
\* replacement changes, until `limit` changes are collected.
RECURSIVE CollectChanges(_, _, _, _)
CollectChanges(videos, k, a, changes) ==
  IF k > Len(videos) \/ Len(changes) >= a.limit THEN changes
  ELSE LET old_value == videos[k].value
           new_value == replace(old_value, a.search, a.replace)
       IN  IF new_value # old_value
           THEN CollectChanges(videos, k + 1, a,
                  Append(changes, [id |-> videos[k].id, field |-> a.field,
                                   old |-> old_value, new |-> new_value]))
           ELSE CollectChanges(videos, k + 1, a, changes)

\* AfterScan applying the changes of a dry run too.
AfterScan_applies_dry_run(changes) ==
  IF changes = <<>>
  THEN /\ ExitWith(0, <<Msg("no_matches", <<>>)>>)
       /\ loc' = [loc EXCEPT !.changes = changes]
  ELSE /\ output' = output \o <<Msg("applying", <<Len(changes)>>)>>
       /\ loc' = [loc EXCEPT !.changes = changes, !.idx = 1, !.success = 0, !.failed = 0]
       /\ pc' = "sr:apply:videos.list"
       /\ UNCHANGED exit_code

\* search_replace after the scan (videos.py:470-493): nothing found, the
\* dry run, or the start of the apply loop.
AfterScan(changes) ==
  IF changes = <<>>
  THEN /\ ExitWith(0, <<Msg("no_matches", <<>>)>>)
       /\ loc' = [loc EXCEPT !.changes = changes]
  ELSE IF ~args.execute
  THEN /\ ExitWith(0, <<Msg("pending", <<Len(changes)>>), Msg("run_with_execute", <<>>)>>)
       /\ loc' = [loc EXCEPT !.changes = changes]
  ELSE /\ output' = output \o <<Msg("applying", <<Len(changes)>>)>>
       /\ loc' = [loc EXCEPT !.changes = changes, !.idx = 1, !.success = 0, !.failed = 0]
       /\ pc' = "sr:apply:videos.list"
       /\ UNCHANGED exit_code

\* search_replace (videos.py:416) up to its first request.
SearchReplaceStart ==
  /\ cmd = "search-replace"
  /\ pc = "start"
  /\ \E demo \in BOOLEAN, creds \in BOOLEAN : GetService(demo, creds, "sr:channels.list")
  /\ loc' = [changes |-> <<>>, page_token |-> 0, seen |-> 0, items |-> <<>>,
             next_page_token |-> 0, idx |-> 0, success |-> 0, failed |-> 0]
  /\ UNCHANGED <<cmd, args, calls>>
  /\ UNCHANGED <<reg_vars, lib_vars>>

\* get_channel_uploads_playlist (videos.py:66-71), called at videos.py:417,
\* and the first test of the scan loop (videos.py:422).
SearchReplaceUploads ==
  /\ cmd = "search-replace"
  /\ pc = "sr:channels.list"
  /\ \E execution \in Executions, has_channel \in BOOLEAN :
       /\ calls' = Append(calls, Call("channels.list", [mine |-> TRUE], execution, 0))
       /\ IF api(execution).kind = "return"
          THEN IF ~has_channel
               THEN ExitWith(1, <<Msg("no_channel", <<>>)>>) /\ UNCHANGED loc
               ELSE IF Len(loc.changes) < args.limit
               THEN /\ pc' = "sr:scan:playlistItems.list"
                    /\ UNCHANGED <<loc, output, exit_code>>
               ELSE AfterScan(loc.changes)
          ELSE ApiEnds(execution) /\ UNCHANGED loc
  /\ UNCHANGED <<cmd, args, services>>
  /\ UNCHANGED <<reg_vars, lib_vars>>

\* The scan loop (videos.py:424-437): a page of the uploads playlist.  The
\* page carries n videos not listed before (their ids number them) and, if
\* more is set, a nextPageToken; the channel has at most MaxVideos videos.
\* loc.seen counts the videos listed so far; a page token is the number of
\* the page it asks for, 0 standing for None.  The response is recorded
\* with the request: the number of its items and its nextPageToken.
SearchReplaceScanPage ==
  /\ cmd = "search-replace"
  /\ pc = "sr:scan:playlistItems.list"
  /\ \E e \in Executions, n \in 0..(MaxVideos - loc.seen), more \in BOOLEAN :
       LET playlist_response ==
             [items |-> n, nextPageToken |-> IF more THEN loc.page_token + 1 ELSE 0]
           execution ==
             IF e.kind = "response" THEN [e EXCEPT !.response = playlist_response] ELSE e
       IN  /\ more => loc.seen + n < MaxVideos
           /\ e.kind # "response" => (n = 0 /\ ~more)
           /\ calls' = Append(calls, Call("playlistItems.list",
                                          [maxResults |-> 50, pageToken |-> loc.page_token],
                                          execution, 0))
           /\ IF api(execution).kind = "return"
              THEN LET items == api(execution).value.items
                   IN  IF items = 0
                       THEN AfterScan(loc.changes)
                       ELSE /\ loc' = [loc EXCEPT
                                        !.items = [k \in 1..items |-> loc.seen + k],
                                        !.seen = loc.seen + items,
                                        !.next_page_token =
                                           api(execution).value.nextPageToken]
                            /\ pc' = "sr:scan:videos.list"
                            /\ UNCHANGED <<output, exit_code>>
              ELSE ApiEnds(execution) /\ UNCHANGED loc
  /\ UNCHANGED <<cmd, args, services>>
  /\ UNCHANGED <<reg_vars, lib_vars>>

\* The scan loop (videos.py:439-468): the snippets of the videos of the page
\* (values[k]: the value of the field of the k-th video), the changes
\* collected from them, and the test for another page.
SearchReplaceScanVideos ==
  /\ cmd = "search-replace"
  /\ pc = "sr:scan:videos.list"
  /\ \E execution \in Executions, values \in [1..Len(loc.items) -> FieldValues] :
       /\ calls' = Append(calls, Call("videos.list", [id |-> loc.items], execution, 0))
       /\ IF api(execution).kind = "return"
          THEN LET videos == [k \in 1..Len(loc.items) |->
                               [id |-> loc.items[k], value |-> values[k]]]
                   changes == CollectChanges(videos, 1, args, loc.changes)
               IN  IF loc.next_page_token = 0 \/ ~(Len(changes) < args.limit)
                   THEN AfterScan(changes)
                   ELSE /\ loc' = [loc EXCEPT !.changes = changes,
                                              !.page_token = loc.next_page_token]
                        /\ pc' = "sr:scan:playlistItems.list"
                        /\ UNCHANGED <<output, exit_code>>
          ELSE ApiEnds(execution) /\ UNCHANGED loc
  /\ UNCHANGED <<cmd, args, services>>
  /\ UNCHANGED <<reg_vars, lib_vars>>

\* The summary line, printed once the last pending change is dealt with
\* (videos.py:522).
Done(success, failed) ==
  IF loc.idx < Len(loc.changes) THEN <<>> ELSE <<Msg("done", <<success, failed>>)>>

\* The apply loop goes on to the next pending change, or ends with the
\* summary (videos.py:495, 522).
NextChange(success, failed) ==
  IF loc.idx < Len(loc.changes)
  THEN /\ loc' = [loc EXCEPT !.idx = loc.idx + 1, !.success = success, !.failed = failed]
       /\ pc' = "sr:apply:videos.list"
       /\ UNCHANGED exit_code
  ELSE /\ loc' = [loc EXCEPT !.success = success, !.failed = failed]
       /\ pc' = "exited"
       /\ exit_code' = 0

\* `except HttpError as e` of the apply loop (videos.py:508-517), for the
\* HttpError api() raised: on quotaExceeded the partial progress is printed
\* and handle_api_error ends the command; any other error counts as a
\* failure and the loop goes on.
ApplyHttpError(error) ==
  IF error.reason = "quotaExceeded"
  THEN /\ IF handle_api_error(error).kind = "SystemExit"
          THEN ExitWith(1, <<Msg("partial_progress", <<loc.success, loc.failed>>)>>
                             \o handle_api_error(error).output)
          ELSE Crash(<<Msg("partial_progress", <<loc.success, loc.failed>>)>>,
                     <<"H","t","t","p","E","r","r","o","r">>)
       /\ UNCHANGED loc
  ELSE /\ NextChange(loc.success, loc.failed + 1)
       /\ output' = output \o <<Msg("failed", <<loc.changes[loc.idx].id>>)>>
                             \o Done(loc.success, loc.failed + 1)

\* ApplyApiFailure counting every failure as a failed change and going on.
ApplyApiFailure_continues(execution) ==
  /\ NextChange(loc.success, loc.failed + 1)
  /\ output' = output \o <<Msg("failed", <<loc.changes[loc.idx].id>>)>>
                        \o Done(loc.success, loc.failed + 1)

\* What the apply loop does with a request that api() did not return from.
ApplyApiFailure(execution) ==
  IF api(execution).kind = "SystemExit"
  THEN ExitWith(1, api(execution).output) /\ UNCHANGED loc
  ELSE ApplyHttpError(execution.error)

\* The apply loop (videos.py:495-499): the snippet of the video of the
\* pending change is fetched; a video that is gone is passed over.
SearchReplaceApplyFetch ==
  /\ cmd = "search-replace"
  /\ pc = "sr:apply:videos.list"
  /\ \E execution \in Executions, found \in BOOLEAN :
       /\ calls' = Append(calls, Call("videos.list", [id |-> loc.changes[loc.idx].id],
                                      execution, loc.idx))
       /\ IF api(execution).kind = "return"
          THEN IF found
               THEN /\ pc' = "sr:apply:videos.update"
                    /\ UNCHANGED <<loc, output, exit_code>>
               ELSE /\ NextChange(loc.success, loc.failed)
                    /\ output' = output \o Done(loc.success, loc.failed)
          ELSE ApplyApiFailure(execution)
  /\ UNCHANGED <<cmd, args, services>>
  /\ UNCHANGED <<reg_vars, lib_vars>>

\* The apply loop (videos.py:501-507): the videos.update request.
SearchReplaceApplyUpdate ==
  /\ cmd = "search-replace"
  /\ pc = "sr:apply:videos.update"
  /\ \E execution \in Executions :
       /\ calls' = Append(calls, Call("videos.update", [id |-> loc.changes[loc.idx].id],
                                      execution, loc.idx))
       /\ IF api(execution).kind = "return"
          THEN /\ NextChange(loc.success + 1, loc.failed)
               /\ output' = output \o <<Msg("applied", <<loc.changes[loc.idx].id>>)>>
                                     \o Done(loc.success + 1, loc.failed)
          ELSE ApplyApiFailure(execution)
  /\ UNCHANGED <<cmd, args, services>>
  /\ UNCHANGED <<reg_vars, lib_vars>>

(***************************************************************************)
(* commands/videos.py: fetch_videos                                        *)
(***************************************************************************)

\* The channel lists its uploads in at most MaxPages pages.
MaxPages == 3

\* The page size the API allows (videos.py:161).
PageSize == 50

\* batch_size asking for a full page whatever is still missing.
batch_size_full_page(limit, collected) == PageSize

\* batch_size (videos.py:161).
batch_size(limit, collected) ==
  IF limit - collected < PageSize THEN limit - collected ELSE PageSize

\* What fetch_videos returns (videos.py:149, 217-221); total_results, which
\* is handed through from the first page, is left out.
FetchReturn(videos, next_page_token) ==
  /\ pc' = "returned"
  /\ loc' = [loc EXCEPT !.all_videos = videos, !.next_page_token = next_page_token]
  /\ UNCHANGED <<output, exit_code>>

\* The locals of fetch_videos (videos.py:153-156); a video is its id, a page
\* token the number of the page it asks for, 0 standing for None.
FetchLocals(a) ==
  [all_videos |-> <<>>, current_page_token |-> a.page_token, next_page_token |-> 0,
   items |-> <<>>, page_token_of_items |-> 0]

\* fetch_videos (videos.py:127-151): in demo mode the first `limit` demo
\* videos are returned (demo: the number of DEMO_VIDEOS).
FetchStart ==
  /\ cmd = "fetch_videos"
  /\ pc = "start"
  /\ \E demo_mode \in BOOLEAN, demo \in 0..2 :
       IF demo_mode
       THEN /\ pc' = "returned"
            /\ loc' = [FetchLocals(args) EXCEPT
                         !.all_videos = [k \in 1..(IF args.limit < demo THEN args.limit ELSE demo)
                                           |-> k]]
       ELSE /\ demo = 0
            /\ pc' = "fv:channels.list"
            /\ loc' = FetchLocals(args)
  /\ UNCHANGED <<cmd, args, calls, services, output, exit_code>>
  /\ UNCHANGED <<reg_vars, lib_vars>>

\* get_channel_uploads_playlist (videos.py:66-71), called at videos.py:151,
\* and the first test of the loop (videos.py:160).
FetchUploads ==
  /\ cmd = "fetch_videos"
  /\ pc = "fv:channels.list"
  /\ \E execution \in Executions, has_channel \in BOOLEAN :
       /\ execution.kind # "response" => has_channel
       /\ calls' = Append(calls, Call("channels.list", [mine |-> TRUE], execution, 0))
       /\ IF api(execution).kind = "return"
          THEN IF ~has_channel
               THEN ExitWith(1, <<Msg("no_channel", <<>>)>>) /\ UNCHANGED loc
               ELSE IF Len(loc.all_videos) < args.limit
               THEN /\ pc' = "fv:playlistItems.list"
                    /\ UNCHANGED <<loc, output, exit_code>>
               ELSE FetchReturn(loc.all_videos, loc.next_page_token)
          ELSE ApiEnds(execution) /\ UNCHANGED loc
  /\ UNCHANGED <<cmd, args, services>>
  /\ UNCHANGED <<reg_vars, lib_vars>>

\* The numbers of items a page can carry when max_results are asked for:
\* none, one, as many as asked for, and one more than asked for.
PageItemCounts(max_results) == {0, 1, max_results, max_results + 1}

\* The loop of fetch_videos (videos.py:161-176): a page of the uploads
\* playlist.  The response is recorded with the request: the number of its
\* items and its nextPageToken.
FetchPage ==
  /\ cmd = "fetch_videos"
  /\ pc = "fv:playlistItems.list"
  /\ LET max_results == batch_size(args.limit, Len(loc.all_videos))
     IN  \E e \in Executions, n \in PageItemCounts(max_results), more \in BOOLEAN :
           LET page == Cardinality(CallsOfMethod(calls, "playlistItems.list")) + 1
               playlist_response ==
                 [items |-> n, nextPageToken |-> IF more THEN page + 1 ELSE 0]
               execution ==
                 IF e.kind = "response" THEN [e EXCEPT !.response = playlist_response] ELSE e
           IN  /\ more => page < MaxPages
               /\ e.kind # "response" => (n = 0 /\ ~more)
               /\ calls' = Append(calls, Call("playlistItems.list",
                                              [maxResults |-> max_results,
                                               pageToken |-> loc.current_page_token],
                                              execution, 0))
               /\ IF api(execution).kind = "return"
                  THEN LET response == api(execution).value
                       IN  IF response.items = 0
                           THEN FetchReturn(loc.all_videos, loc.next_page_token)
                           ELSE /\ loc' = [loc EXCEPT
                                            !.items = [k \in 1..response.items |->
                                                         Len(loc.all_videos) + k],
                                            !.page_token_of_items = response.nextPageToken]
                                /\ pc' = "fv:videos.list"
                                /\ UNCHANGED <<output, exit_code>>
                  ELSE ApiEnds(execution) /\ UNCHANGED loc
  /\ UNCHANGED <<cmd, args, services>>
  /\ UNCHANGED <<reg_vars, lib_vars>>

\* The loop of fetch_videos (videos.py:178-215): the details of the videos
\* of the page are fetched, every item of the page becomes a video, and the
\* loop goes on if the page had a nextPageToken and fewer than `limit`
\* videos are collected.
FetchDetails ==
  /\ cmd = "fetch_videos"
  /\ pc = "fv:videos.list"
  /\ \E execution \in Executions :
       /\ calls' = Append(calls, Call("videos.list", [id |-> loc.items], execution, 0))
       /\ IF api(execution).kind = "return"
          THEN LET all_videos == loc.all_videos \o loc.items
                   next_page_token == loc.page_token_of_items
               IN  IF next_page_token = 0 \/ ~(Len(all_videos) < args.limit)
                   THEN FetchReturn(all_videos, next_page_token)
                   ELSE /\ loc' = [loc EXCEPT !.all_videos = all_videos,
                                              !.next_page_token = next_page_token,
                                              !.current_page_token = next_page_token]
                        /\ pc' = "fv:playlistItems.list"
                        /\ UNCHANGED <<output, exit_code>>
          ELSE ApiEnds(execution) /\ UNCHANGED loc
  /\ UNCHANGED <<cmd, args, services>>
  /\ UNCHANGED <<reg_vars, lib_vars>>

(***************************************************************************)
(* commands/comments.py: publish and reject                                *)
(***************************************************************************)

\* batch_size (comments.py:143).
BatchSize == 50

\* comment_ids[i : i + batch_size], the ids being numbered 1..n and i the
\* code's 0-based index.
Batch(n, i) == [k \in 1..(IF n - i < BatchSize THEN n - i ELSE BatchSize) |-> i + k]

\* publish / reject (comments.py:160-176) up to the first request of
\* _set_moderation_status (comments.py:140-145): get_data_service
\* (services.py:5-8) hands the demo service in demo mode.
ModerationStart ==
  /\ cmd \in {"publish", "reject"}
  /\ pc = "start"
  /\ \E demo \in BOOLEAN, creds \in BOOLEAN :
       IF ~demo /\ ~creds
       THEN /\ ExitWith(1, <<Msg("not_authenticated", <<>>)>>)
            /\ UNCHANGED <<loc, services>>
       ELSE /\ services' = {IF demo THEN "demo" ELSE "youtube"}
            /\ loc' = [i |-> 0, success |-> 0]
            /\ pc' = "mod:comments.setModerationStatus"
            /\ UNCHANGED <<output, exit_code>>
  /\ UNCHANGED <<cmd, args, calls>>
  /\ UNCHANGED <<reg_vars, lib_vars>>

\* _set_moderation_status (comments.py:144-157): one batch.  A request of
\* the demo service always returns its response.
ModerationBatch ==
  /\ cmd \in {"publish", "reject"}
  /\ pc = "mod:comments.setModerationStatus"
  /\ \E execution \in Executions :
       /\ "demo" \in services => execution.kind = "response"
       /\ calls' = Append(calls,
            Call("comments.setModerationStatus",
                 [id |-> Batch(args.n_comments, loc.i),
                  moderationStatus |-> IF cmd = "publish" THEN "published" ELSE "rejected",
                  banAuthor |-> cmd = "reject" /\ args.ban],
                 execution, 0))
       /\ IF api(execution).kind = "return"
          THEN LET success == loc.success + Len(Batch(args.n_comments, loc.i))
               IN  /\ loc' = [i |-> loc.i + BatchSize, success |-> success]
                   /\ IF loc.i + BatchSize < args.n_comments
                      THEN UNCHANGED <<pc, output, exit_code>>
                      ELSE ExitWith(0, <<Msg("count", <<success>>)>>)
          ELSE IF api(execution).kind = "SystemExit"
          THEN ExitWith(1, api(execution).output) /\ UNCHANGED loc
          ELSE /\ IF handle_api_error(execution.error).kind = "SystemExit"
                  THEN ExitWith(1, handle_api_error(execution.error).output)
                  ELSE Crash(<<>>, <<"H","t","t","p","E","r","r","o","r">>)
               /\ UNCHANGED loc
  /\ UNCHANGED <<cmd, args, services>>
  /\ UNCHANGED <<reg_vars, lib_vars>>

(***************************************************************************)
(* commands/moderate.py: the moderation TUI                                *)
(***************************************************************************)

\* At most MaxComments held comments are loaded, at most MaxKeys keys are
\* pressed in a session.
MaxComments == 2

MaxKeys == 3

\* ModerationAction (moderate.py:25-28).
PUBLISH == "publish"

REJECT == "reject"

\* A dict is the sequence of its <<key, value>> items in insertion order:
\* d.get(key, ""), d[key] = value, del d[key].
DictGet(d, key) ==
  IF \E k \in 1..Len(d) : d[k][1] = key
  THEN d[CHOOSE k \in 1..Len(d) : d[k][1] = key][2]
  ELSE ""

DictSet(d, key, value) ==
  IF \E k \in 1..Len(d) : d[k][1] = key
  THEN [k \in 1..Len(d) |-> IF d[k][1] = key THEN <<key, value>> ELSE d[k]]
  ELSE Append(d, <<key, value>>)

DictDel(d, key) == SelectSeq(d, LAMBDA item : item[1] # key)

\* [cid for cid, a in self.actions.items() if a == action] (moderate.py:145-146).
IdsWith(actions, action) ==
  LET chosen == SelectSeq(actions, LAMBDA item : item[2] = action)
  IN  [k \in 1..Len(chosen) |-> chosen[k][1]]

\* ModerateTUI.__init__ (moderate.py:48-53) for the comments 1..n, with the
\* cursor of the table on the first row, no worker and no key pressed.
ModerateTUI(n) ==
  [comments |-> n, actions |-> <<>>, applied_publish |-> 0, applied_reject |-> 0,
   cursor |-> 1, app |-> "running", workers |-> <<>>, keys |-> <<>>]

\* DataTable.action_cursor_down: the cursor stays on the last row.
cursor_down(tui) == [tui EXCEPT !.cursor = IF tui.cursor < tui.comments THEN tui.cursor + 1
                                           ELSE tui.cursor]

\* action_publish (moderate.py:106-112); the table has a row, so
\* _get_cursor_id returns the id of the row of the cursor.
action_publish(tui) ==
  cursor_down([tui EXCEPT !.actions = DictSet(tui.actions, tui.cursor, PUBLISH)])

\* action_hide (moderate.py:114-120).
action_hide(tui) ==
  cursor_down([tui EXCEPT !.actions = DictSet(tui.actions, tui.cursor, REJECT)])

\* action_toggle storing ModerationAction.NONE instead of deleting the action.
action_toggle_stores_none(tui) ==
  IF DictGet(tui.actions, tui.cursor) # ""
  THEN [tui EXCEPT !.actions = DictSet(tui.actions, tui.cursor, "")]
  ELSE [tui EXCEPT !.actions = DictSet(tui.actions, tui.cursor, PUBLISH)]

\* action_toggle (moderate.py:122-130).
action_toggle(tui) ==
  IF DictGet(tui.actions, tui.cursor) # ""
  THEN [tui EXCEPT !.actions = DictDel(tui.actions, tui.cursor)]
  ELSE [tui EXCEPT !.actions = DictSet(tui.actions, tui.cursor, PUBLISH)]

\* action_publish_all (moderate.py:132-135), from comment cid on.
RECURSIVE publish_all(_, _)
publish_all(actions, cid_and_n) ==
  IF cid_and_n[1] > cid_and_n[2] THEN actions
  ELSE publish_all(DictSet(actions, cid_and_n[1], PUBLISH),
                   <<cid_and_n[1] + 1, cid_and_n[2]>>)

action_publish_all(tui) ==
  [tui EXCEPT !.actions = publish_all(tui.actions, <<1, tui.comments>>)]

\* A worker thread about to run _apply_actions.
NewWorker ==
  [pc |-> "publish_ids", publish_ids |-> <<>>, reject_ids |-> <<>>,
   status |-> "", ids |-> <<>>, i |-> 0, success |-> 0, sent |-> <<>>]

\* action_quit_app (moderate.py:137-138): _apply_actions is decorated with
\* @work(thread=True) (moderate.py:143), so the call starts a worker thread
\* and returns; exclusive is not set, and the workers started before go on.
action_quit_app(tui) == [tui EXCEPT !.workers = Append(tui.workers, NewWorker)]

\* action_cancel (moderate.py:140-141).
action_cancel(tui) == [tui EXCEPT !.app = "exited"]

\* What the BINDINGS (moderate.py:39-46) call for a key.
Keys == {"enter", "h", "space", "a", "q", "escape"}

\* moderate (moderate.py:161): get_data_service (services.py:5-8).
ModerateStart ==
  /\ cmd = "moderate"
  /\ pc = "start"
  /\ \E demo \in BOOLEAN, creds \in BOOLEAN :
       IF ~demo /\ ~creds
       THEN /\ ExitWith(1, <<Msg("not_authenticated", <<>>)>>)
            /\ UNCHANGED services
       ELSE /\ services' = {IF demo THEN "demo" ELSE "youtube"}
            /\ pc' = IF args.video THEN "mt:commentThreads.list" ELSE "mt:channels.list"
            /\ UNCHANGED <<output, exit_code>>
  /\ UNCHANGED <<cmd, args, loc, calls>>
  /\ UNCHANGED <<reg_vars, lib_vars>>

\* A request of fetch_comments that api() does not return from
\* (comments.py:71-76): SystemExit passes, an HttpError goes to
\* handle_api_error.
FetchCommentsFails(execution) ==
  IF api(execution).kind = "SystemExit"
  THEN ExitWith(1, api(execution).output)
  ELSE IF handle_api_error(execution.error).kind = "SystemExit"
  THEN ExitWith(1, handle_api_error(execution.error).output)
  ELSE Crash(<<>>, <<"H","t","t","p","E","r","r","o","r">>)

\* get_channel_id (comments.py:40-45) called by fetch_comments
\* (comments.py:66); its typer.Exit is caught by `except Exception`
\* (comments.py:74-76).
ModerateChannel ==
  /\ cmd = "moderate"
  /\ pc = "mt:channels.list"
  /\ \E execution \in Executions, has_channel \in BOOLEAN :
       /\ "demo" \in services => execution.kind = "response"
       /\ execution.kind # "response" => has_channel
       /\ calls' = Append(calls, Call("channels.list", [mine |-> TRUE], execution, 0))
       /\ IF api(execution).kind = "return"
          THEN IF has_channel
               THEN pc' = "mt:commentThreads.list" /\ UNCHANGED <<output, exit_code>>
               ELSE ExitWith(1, <<Msg("no_channel", <<>>), Msg("could_not_fetch", <<>>)>>)
          ELSE FetchCommentsFails(execution)
  /\ UNCHANGED <<cmd, args, loc, services>>
  /\ UNCHANGED <<reg_vars, lib_vars>>

\* fetch_comments (comments.py:71-91) and moderate (moderate.py:164-169):
\* the held comments are loaded, numbered 1..n, and the TUI starts.
ModerateFetch ==
  /\ cmd = "moderate"
  /\ pc = "mt:commentThreads.list"
  /\ \E execution \in Executions, n \in 0..MaxComments :
       /\ "demo" \in services => execution.kind = "response"
       /\ execution.kind # "response" => n = 0
       /\ calls' = Append(calls, Call("commentThreads.list",
                                      [moderationStatus |-> "heldForReview"], execution, 0))
       /\ IF api(execution).kind = "return"
          THEN IF n = 0
               THEN ExitWith(0, <<Msg("no_held_comments", <<>>)>>) /\ UNCHANGED loc
               ELSE /\ loc' = ModerateTUI(n)
                    /\ pc' = "tui"
                    /\ UNCHANGED <<output, exit_code>>
          ELSE FetchCommentsFails(execution) /\ UNCHANGED loc
  /\ UNCHANGED <<cmd, args, services>>
  /\ UNCHANGED <<reg_vars, lib_vars>>

\* A key is pressed while the app runs, and its action is run by the event
\* loop.
KeyPress ==
  /\ cmd = "moderate"
  /\ pc = "tui"
  /\ loc.app = "running"
  /\ Len(loc.keys) < MaxKeys
  /\ \E key \in Keys :
       LET tui == [loc EXCEPT !.keys = Append(loc.keys, key)]
       IN  loc' = CASE key = "enter" -> action_publish(tui)
                    [] key = "h" -> action_hide(tui)
                    [] key = "space" -> action_toggle(tui)
                    [] key = "a" -> action_publish_all(tui)
                    [] key = "q" -> action_quit_app(tui)
                    [] key = "escape" -> action_cancel(tui)
  /\ UNCHANGED <<cmd, args, pc, calls, services, output, exit_code>>
  /\ UNCHANGED <<reg_vars, lib_vars>>

\* The workers that have something left to do.  Once the app has exited
\* tui.run() returns and the summary is printed at once: what a worker
\* still running does after that is left out.
Running(tui) ==
  {w \in 1..Len(tui.workers) :
     tui.app = "running" /\ tui.workers[w].pc \notin {"done", "failed"}}

\* The next thing a worker does once the ids of a status are dealt with
\* (moderate.py:148-153).
AfterPublish(worker) ==
  IF worker.reject_ids # <<>>
  THEN [worker EXCEPT !.pc = "send", !.status = "rejected", !.ids = worker.reject_ids,
                      !.i = 0, !.success = 0]
  ELSE [worker EXCEPT !.pc = "exit"]

\* _apply_actions (moderate.py:145-148): a worker reads the ids to publish,
\* then the ids to reject, from the actions as they are at that moment.
WorkerReads ==
  /\ cmd = "moderate"
  /\ pc = "tui"
  /\ \E w \in Running(loc) :
       LET worker == loc.workers[w]
       IN  \/ /\ worker.pc = "publish_ids"
              /\ loc' = [loc EXCEPT !.workers[w] =
                           [worker EXCEPT !.pc = "reject_ids",
                                          !.publish_ids = IdsWith(loc.actions, PUBLISH)]]
           \/ /\ worker.pc = "reject_ids"
              /\ LET read == [worker EXCEPT !.reject_ids = IdsWith(loc.actions, REJECT)]
                 IN  loc' = [loc EXCEPT !.workers[w] =
                               IF read.publish_ids # <<>>
                               THEN [read EXCEPT !.pc = "send", !.status = "published",
                                                 !.ids = read.publish_ids]
                               ELSE AfterPublish(read)]
  /\ UNCHANGED <<cmd, args, pc, calls, services, output, exit_code>>
  /\ UNCHANGED <<reg_vars, lib_vars>>

\* _set_moderation_status (comments.py:144-152): a worker sends the request
\* of a batch; the request is in flight until its response is there.
WorkerSends ==
  /\ cmd = "moderate"
  /\ pc = "tui"
  /\ \E w \in Running(loc) :
       LET worker == loc.workers[w]
           batch == SubSeq(worker.ids, worker.i + 1,
                           IF worker.i + BatchSize < Len(worker.ids)
                           THEN worker.i + BatchSize ELSE Len(worker.ids))
       IN  /\ worker.pc = "send"
           /\ loc' = [loc EXCEPT !.workers[w] =
                        [worker EXCEPT !.pc = "sent",
                                       !.sent = [id |-> batch,
                                                 moderationStatus |-> worker.status,
                                                 banAuthor |-> FALSE]]]
  /\ UNCHANGED <<cmd, args, pc, calls, services, output, exit_code>>
  /\ UNCHANGED <<reg_vars, lib_vars>>

\* _set_moderation_status (comments.py:152-157) and _apply_actions
\* (moderate.py:149-151): the request of a worker is answered.  After the last
\* batch the number of comments is stored; a request that fails ends the
\* worker, and a worker that failed ends the app.
WorkerReceives ==
  /\ cmd = "moderate"
  /\ pc = "tui"
  /\ \E w \in Running(loc), execution \in Executions :
       LET worker == loc.workers[w]
           success == worker.success + Len(worker.sent.id)
       IN  /\ worker.pc = "sent"
           /\ "demo" \in services => execution.kind = "response"
           /\ calls' = Append(calls, Call("comments.setModerationStatus", worker.sent,
                                          execution, w))
           /\ loc' =
                IF api(execution).kind # "return"
                THEN [loc EXCEPT !.workers[w] = [worker EXCEPT !.pc = "failed"],
                                 !.app = "exited"]
                ELSE IF worker.i + BatchSize < Len(worker.ids)
                THEN [loc EXCEPT !.workers[w] =
                        [worker EXCEPT !.pc = "send", !.i = worker.i + BatchSize,
                                       !.success = success]]
                ELSE IF worker.status = "published"
                THEN [loc EXCEPT !.workers[w] = AfterPublish(worker),
                                 !.applied_publish = success]
                ELSE [loc EXCEPT !.workers[w] = [worker EXCEPT !.pc = "exit"],
                                 !.applied_reject = success]
  /\ UNCHANGED <<cmd, args, pc, services, output, exit_code>>
  /\ UNCHANGED <<reg_vars, lib_vars>>

\* _apply_actions (moderate.py:153): the worker has the app exit.
WorkerExits ==
  /\ cmd = "moderate"
  /\ pc = "tui"
  /\ \E w \in Running(loc) :
       /\ loc.workers[w].pc = "exit"
       /\ loc' = [loc EXCEPT !.workers[w] = [loc.workers[w] EXCEPT !.pc = "done"],
                             !.app = "exited"]
  /\ UNCHANGED <<cmd, args, pc, calls, services, output, exit_code>>
  /\ UNCHANGED <<reg_vars, lib_vars>>

\* moderate (moderate.py:169-178): tui.run() returns once the app has
\* exited, and the summary is printed from the counts as they are then.
ModerateSummary ==
  /\ cmd = "moderate"
  /\ pc = "tui"
  /\ loc.app = "exited"
  /\ ExitWith(0, IF loc.applied_publish + loc.applied_reject # 0
                 THEN <<Msg("applied", <<loc.applied_publish, loc.applied_reject>>)>>
                 ELSE <<Msg("no_changes", <<>>)>>)
  /\ UNCHANGED <<cmd, args, loc, calls, services>>
  /\ UNCHANGED <<reg_vars, lib_vars>>

\* The registry functions are not under test in an invocation.
RegistryIdle ==
  /\ reg_op = "none"
  /\ reg_names = <<>>
  /\ reg_max_distance = DefaultMaxDistance
  /\ reg_result = None
  /\ registry = Loaded

\* No invocation is under test when the registry functions are.
CliIdle ==
  /\ cmd = "none"
  /\ args = <<>>
  /\ pc = "exited"
  /\ loc = <<>>
  /\ calls = <<>>
  /\ services = {}
  /\ output = <<>>
  /\ exit_code = 0

\* No library function is under test.
LibIdle ==
  /\ fn = "none"
  /\ fn_args = <<>>
  /\ fn_result = <<>>
  /\ raw = FALSE
  /\ credentials_file = None
  /\ fn_log = <<>>
  /\ version_cache_file = None
  /\ clock = 0

(***************************************************************************)
(* The registry functions applied to bounded inputs                         *)
(***************************************************************************)

\* Bounds of the inputs.
MaxNameLen == 3

MaxNames == 2

MaxDistance == 3

NameAlphabet == {"d", "a"}

\* Every str over NameAlphabet of at most MaxNameLen characters.
ShortNames == UNION {[1..n -> NameAlphabet] : n \in 0..MaxNameLen}

\* Registry names, typos and re-casings of them, a name with a letter whose
\* upper case is two letters, and a far-away name.
SampleNames ==
  { <<"v","i","e","w","s">>, <<"v","e","i","w","s">>, <<"V","I","E","W","S">>,
    <<"l","i","k","e","s">>, <<"L","i","k","e","s">>, <<"l","i","k","e">>,
    <<"v","i","d","e","o">>, <<"v","i","d","o","e">>, <<"V","i","d","e","o">>,
    <<"c","o","n","t","i","n","e","n","t">>, <<"c","p","m">>, <<"d","m","a">>,
    <<"s","h","a","r","e">>, <<"c","a","r","d","C","l","i","c","k">>,
    <<"ß","a">>, <<"z","z","z","z","z","z","z","z","z">> }

NameInputs == ShortNames \cup SampleNames

\* The names the lists handed to the validators are made of.
ListNames ==
  { <<"v","i","e","w","s">>, <<"v","e","i","w","s">>, <<"d","a","y">>,
    <<"V","I","E","W","S">>, <<"z","z","z","z","z","z","z","z","z">> }

NameLists == UNION {[1..n -> ListNames] : n \in 0..MaxNames}

RegistryInit ==
  /\ registry = Loaded
  /\ CliIdle
  /\ LibIdle
  /\ reg_op = "none"
  /\ reg_result = None
  /\ \/ /\ reg_names \in NameLists
        /\ reg_max_distance = DefaultMaxDistance
     \/ /\ reg_names \in {<<n>> : n \in NameInputs}
        /\ reg_max_distance \in 0..MaxDistance

\* A call validate_metrics(reg_names).
ValidateMetrics ==
  /\ reg_op = "none"
  /\ reg_max_distance = DefaultMaxDistance
  /\ reg_op' = "validate_metrics"
  /\ reg_result' = validate_metrics(reg_names)
  /\ UNCHANGED <<reg_names, reg_max_distance, registry>>
  /\ UNCHANGED <<cli_vars, lib_vars>>

\* A call validate_dimensions(reg_names).
ValidateDimensions ==
  /\ reg_op = "none"
  /\ reg_max_distance = DefaultMaxDistance
  /\ reg_op' = "validate_dimensions"
  /\ reg_result' = validate_dimensions(reg_names)
  /\ UNCHANGED <<reg_names, reg_max_distance, registry>>
  /\ UNCHANGED <<cli_vars, lib_vars>>

\* A call find_closest_metric(name, max_distance).
FindClosestMetric ==
  /\ reg_op = "none"
  /\ Len(reg_names) = 1
  /\ reg_op' = "find_closest_metric"
  /\ reg_result' = find_closest_metric(reg_names[1], reg_max_distance)
  /\ UNCHANGED <<reg_names, reg_max_distance, registry>>
  /\ UNCHANGED <<cli_vars, lib_vars>>

\* A call find_closest_dimension(name, max_distance).
FindClosestDimension ==
  /\ reg_op = "none"
  /\ Len(reg_names) = 1
  /\ reg_op' = "find_closest_dimension"
  /\ reg_result' = find_closest_dimension(reg_names[1], reg_max_distance)
  /\ UNCHANGED <<reg_names, reg_max_distance, registry>>
  /\ UNCHANGED <<cli_vars, lib_vars>>

RegistryNext ==
  \/ ValidateMetrics
  \/ ValidateDimensions
  \/ FindClosestMetric
  \/ FindClosestDimension

SpecRegistry == RegistryInit /\ [][RegistryNext]_vars

(***************************************************************************)
(* Invocations of the CLI on bounded inputs                                *)
(***************************************************************************)

MaxFilters == 2

\* --metrics: two known names with blanks, a typo, a known and an unknown
\* name, and a list that is empty once parsed.
MetricStrings ==
  { <<"v","i","e","w","s",","," ","l","i","k","e","s">>,
    <<"c","p","n">>,
    <<" ",","," ">> }

\* --dimensions: absent, known names (one of them `video`, one filter-only),
\* and a typo.
DimensionStrings ==
  { None,
    <<"d","a","y">>,
    <<"d","a","y",",","v","i","d","e","o">>,
    <<"c","o","n","t","i","n","e","n","t">>,
    <<"d","y","a">> }

\* --filter tokens: two of the form key==value and one that is not.
FilterTokens == { <<"v","=","=","1">>, <<"c","=","=","N","L">>, <<"v","=","1">> }

FilterLists == UNION {[1..n -> FilterTokens] : n \in 0..MaxFilters}

\* Invocations that vary the names, the filters, --sort and --limit.
QueryNameArgs ==
  [metrics_str : MetricStrings,
   dimensions_str : DimensionStrings,
   filter_list : FilterLists,
   start : {None},
   end : {None},
   days : {28},
   sort : {None, <<"-","v","i","e","w","s">>},
   limit : {<<>>, <<0>>, <<10>>},
   currency : {None},
   output : {"table"}]

\* Invocations that vary --start, --end and --days.
QueryDateArgs ==
  [metrics_str : {<<"v","i","e","w","s",","," ","l","i","k","e","s">>},
   dimensions_str : {<<"d","a","y">>},
   filter_list : {<<>>},
   start : {None, <<"2","0","2","6","-","0","1","-","0","1">>, <<"2","0","2","4","-","0","2","-","1","5">>},
   end : {None, <<"2","0","2","6","-","0","1","-","3","1">>,
          <<"2","0","2","3","-","1","2","-","3","1">>},
   days : {0, 1, 28, 366},
   sort : {None},
   limit : {<<>>},
   currency : {None},
   output : {"table"}]

QueryArgs == QueryNameArgs \cup QueryDateArgs \cup QueryOutputArgs

UpdateArgs ==
  [video_id : {<<"v","1">>},
   title : {None, <<"b">>},
   description : {None},
   tags : {None, <<"t",","," ","u">>},
   execute : BOOLEAN]

\* --limit of search-replace: none, fewer than, as many as and more than the
\* videos of the channel.
SearchReplaceArgs ==
  [search : {<<"a">>},
   replace : {<<"b">>, <<"a">>},
   field : {"title"},
   regex : {FALSE},
   limit : {0, 1, 2, 10},
   execute : BOOLEAN]

\* The number of comment ids given: one batch, a full batch, two and three
\* batches.
ModerationArgs == [n_comments : {1, 50, 51, 101}, ban : BOOLEAN]

\* The options of `analytics metrics` and `analytics dimensions`: no group,
\* a group of the metrics, a group of the dimensions and an unknown group;
\* no name, registry names, a typo and a far-away name.
DiscoveryArgs ==
  [group : {NoGroup, "", "revenue", "time", "bogus"},
   name : {None, <<>>, <<"v","i","e","w","s">>, <<"v","e","i","w","s">>,
           <<"c","p","m">>, <<"d","a","y">>, <<"c","o","n","t","i","n","e","n","t">>,
           <<"z","z","z","z","z","z","z","z","z">>},
   output : {"table", "json"}]

\* The process has been started with a command and its options.
Init ==
  /\ RegistryIdle
  /\ LibIdle
  /\ \/ cmd = "query" /\ args \in QueryArgs
     \/ cmd = "update" /\ args \in UpdateArgs
     \/ cmd = "search-replace" /\ args \in SearchReplaceArgs
     \/ cmd \in {"publish", "reject"} /\ args \in ModerationArgs
     \/ cmd \in {"metrics", "dimensions"} /\ args \in DiscoveryArgs
  /\ pc = "start"
  /\ loc = <<>>
  /\ calls = <<>>
  /\ services = {}
  /\ output = <<>>
  /\ exit_code = -1

Next ==
  \/ QueryStart
  \/ QueryChannelLookup
  \/ QueryReport
  \/ UpdateStart
  \/ UpdateFetch
  \/ UpdateWrite
  \/ SearchReplaceStart
  \/ SearchReplaceUploads
  \/ SearchReplaceScanPage
  \/ SearchReplaceScanVideos
  \/ SearchReplaceApplyFetch
  \/ SearchReplaceApplyUpdate
  \/ ModerationStart
  \/ ModerationBatch
  \/ ListMetrics
  \/ ListDimensions

Spec == Init /\ [][Next]_vars

(***************************************************************************)
(* api.py applied to bounded inputs                                        *)
(***************************************************************************)

\* The HTTP errors handle_api_error is applied to: client and server error
\* statuses, with the reasons the API gives and "" for none.
ApiErrors ==
  [status : {400, 401, 403, 404, 429, 500, 503},
   reason : {"quotaExceeded", "forbidden", "notFound", "rateLimitExceeded", ""}]

\* The responses a request returns: a page of items and a continuation token
\* (0: none).
MaxItems == 2

ApiResponses ==
  [items : UNION {[1..n -> {"a", "b", "c"}] : n \in 0..MaxItems}, nextPageToken : 0..2]

ApiExecutions ==
  {[kind |-> "response", error |-> NoError, response |-> r] : r \in ApiResponses}
    \cup {[kind |-> "RefreshError", error |-> NoError, response |-> <<>>]}
    \cup {[kind |-> "HttpError", error |-> e, response |-> <<>>] : e \in ApiErrors}

ApiInit == RegistryIdle /\ CliIdle /\ LibIdle

\* A call handle_api_error(error).
HandleApiError ==
  /\ fn \in {"none", "handle_api_error", "api"}
  /\ \E error \in ApiErrors :
       /\ fn' = "handle_api_error"
       /\ fn_args' = <<error>>
       /\ fn_result' = handle_api_error(error)
  /\ UNCHANGED <<raw, credentials_file, fn_log, version_cache_file, clock>>
  /\ UNCHANGED <<reg_vars, cli_vars>>

\* A call api(request), the request executing as `execution`.
Api ==
  /\ fn \in {"none", "handle_api_error", "api"}
  /\ \E execution \in ApiExecutions :
       /\ fn' = "api"
       /\ fn_args' = <<execution>>
       /\ fn_result' = api(execution)
  /\ UNCHANGED <<raw, credentials_file, fn_log, version_cache_file, clock>>
  /\ UNCHANGED <<reg_vars, cli_vars>>

ApiNext == HandleApiError \/ Api

SpecApi == ApiInit /\ [][ApiNext]_vars

(***************************************************************************)
(* ui.py applied to bounded inputs                                         *)
(***************************************************************************)

\* Bounds: the calls of set_raw_output, and the multiples of 50 from 1000 on
\* that format_number is applied to.
MaxCalls == 2

MaxSteps == 40

\* The numbers format_number is applied to: around the thresholds 1000 and
\* 1000000, around the roundings to one decimal, and negative.
NumberSamples ==
  {-1500, -1, 0, 1, 9, 10, 99, 100, 999, 1001, 1049, 1051, 1149, 1151, 1499,
   9999, 12345, 99949, 99950, 999499, 999949, 999950, 999999,
   1000000, 1000001, 1049999, 1050000, 1050001, 1150000, 1250000, 1500000,
   1750000, 2500000, 99950000, 999950000}
    \cup {1000 + 50 * k : k \in 0..MaxSteps}

UiInit == RegistryIdle /\ CliIdle /\ LibIdle

\* A call set_raw_output(value) (ui.py:33-34).
SetRawOutput ==
  /\ Len(fn_log) < MaxCalls
  /\ \E value \in BOOLEAN :
       /\ fn' = "set_raw_output"
       /\ fn_args' = <<value>>
       /\ raw' = value
       /\ fn_log' = Append(fn_log, <<"set_raw_output", value>>)
  /\ fn_result' = None
  /\ UNCHANGED <<credentials_file, version_cache_file, clock>>
  /\ UNCHANGED <<reg_vars, cli_vars>>

\* A call format_number(n).
FormatNumber ==
  /\ \E n \in NumberSamples :
       /\ fn' = "format_number"
       /\ fn_args' = <<n>>
       /\ fn_result' = format_number(n)
  /\ UNCHANGED <<raw, credentials_file, fn_log, version_cache_file, clock>>
  /\ UNCHANGED <<reg_vars, cli_vars>>

UiNext == SetRawOutput \/ FormatNumber

SpecUi == UiInit /\ [][UiNext]_vars

(***************************************************************************)
(* config.py: the stored credentials                                       *)
(***************************************************************************)

\* The values of the credentials dict (api.py:83-90): a str, None, or a list
\* of str.  A dict is the sequence of its <<key, value>> items in insertion
\* order.
JsonStr(s) == [t |-> "str", s |-> s, l |-> <<>>]

JsonNull == [t |-> "null", s |-> <<>>, l |-> <<>>]

JsonList(l) == [t |-> "list", s |-> <<>>, l |-> l]

\* The \uXXXX escapes of the characters outside ASCII (json.dumps has
\* ensure_ascii set).
UnicodeEscapes == { <<"é", <<"0","0","e","9">>>> }

NonAscii == {p[1] : p \in UnicodeEscapes}

\* A character inside a JSON string.
JsonEscape(c) ==
  IF c = "\"" THEN <<"\\", "\"">>
  ELSE IF c = "\\" THEN <<"\\", "\\">>
  ELSE IF c = "\n" THEN <<"\\", "n">>
  ELSE IF c \in NonAscii
       THEN <<"\\", "u">> \o (CHOOSE p \in UnicodeEscapes : p[1] = c)[2]
       ELSE <<c>>

dumps_str(s) ==
  <<"\"">> \o concat([k \in 1..Len(s) |-> JsonEscape(s[k])]) \o <<"\"">>

Spaces(n) == [k \in 1..n |-> " "]

\* json.dumps of a value at a nesting level, with indent=2.
dumps_value(v, level) ==
  CASE v.t = "null" -> <<"n","u","l","l">>
    [] v.t = "str" -> dumps_str(v.s)
    [] v.t = "list" ->
         IF v.l = <<>> THEN <<"[", "]">>
         ELSE <<"[", "\n">>
                \o join(<<",", "\n">>,
                        [k \in 1..Len(v.l) |-> Spaces(2 * (level + 1)) \o dumps_str(v.l[k])])
                \o <<"\n">> \o Spaces(2 * level) \o <<"]">>

\* json.dumps(credentials, indent=2) (config.py:69).
dumps(d) ==
  IF d = <<>> THEN <<"{", "}">>
  ELSE <<"{", "\n">>
         \o join(<<",", "\n">>,
                 [k \in 1..Len(d) |->
                    Spaces(2) \o dumps_str(d[k][1]) \o <<":", " ">> \o dumps_value(d[k][2], 1)])
         \o <<"\n", "}">>

\* json.loads: the first position from k on that holds no white space.
RECURSIVE SkipWs(_, _)
SkipWs(text, k) ==
  IF k <= Len(text) /\ text[k] \in {" ", "\n", "\t", "\r"} THEN SkipWs(text, k + 1) ELSE k

\* json.loads: the characters of a string from position k (after the opening
\* quote) to the closing quote; next is the position after it.
RECURSIVE ParseChars(_, _, _)
ParseChars(text, k, s) ==
  IF text[k] = "\"" THEN [value |-> s, next |-> k + 1]
  ELSE IF text[k] = "\\"
       THEN IF text[k + 1] = "u"
            THEN ParseChars(text, k + 6,
                   Append(s, (CHOOSE p \in UnicodeEscapes :
                                 p[2] = SubSeq(text, k + 2, k + 5))[1]))
            ELSE ParseChars(text, k + 2,
                   Append(s, IF text[k + 1] = "n" THEN "\n" ELSE text[k + 1]))
       ELSE ParseChars(text, k + 1, Append(s, text[k]))

\* json.loads: the strings of a list from position k (after `[`).
RECURSIVE ParseList(_, _, _)
ParseList(text, k, l) ==
  LET j == SkipWs(text, k)
  IN  IF text[j] = "]" THEN [value |-> JsonList(l), next |-> j + 1]
      ELSE IF text[j] = "," THEN ParseList(text, j + 1, l)
      ELSE LET item == ParseChars(text, j + 1, <<>>)
           IN  ParseList(text, item.next, Append(l, item.value))

\* json.loads: the value at position k.
ParseValue(text, k) ==
  CASE text[k] = "n" -> [value |-> JsonNull, next |-> k + 4]
    [] text[k] = "\"" ->
         LET str == ParseChars(text, k + 1, <<>>)
         IN  [value |-> JsonStr(str.value), next |-> str.next]
    [] text[k] = "[" -> ParseList(text, k + 1, <<>>)

\* json.loads: the items of an object from position k (after `{`).
RECURSIVE ParseObject(_, _, _)
ParseObject(text, k, d) ==
  LET j == SkipWs(text, k)
  IN  IF text[j] = "}" THEN d
      ELSE IF text[j] = "," THEN ParseObject(text, j + 1, d)
      ELSE LET key == ParseChars(text, j + 1, <<>>)
               colon == SkipWs(text, key.next)
               value == ParseValue(text, SkipWs(text, colon + 1))
           IN  ParseObject(text, value.next, Append(d, <<key.value, value.value>>))

\* json.loads(text) of an object (config.py:76).
loads(text) == ParseObject(text, SkipWs(text, 1) + 1, <<>>)

\* save_credentials (config.py:66-69): the text of the credentials file
\* after the call.
save_credentials(credentials) == dumps(credentials)

\* load_credentials (config.py:72-76): <<>> for None, <<d>> for the dict d.
load_credentials(file) == IF file = None THEN <<>> ELSE <<loads(file)>>

\* clear_credentials that leaves the file.
clear_credentials_keeps_file(file) == file

\* clear_credentials (config.py:79-82): the credentials file after the call,
\* None for no file.
clear_credentials(file) == IF file # None THEN None ELSE file

(***************************************************************************)
(* config.py applied to bounded inputs                                     *)
(***************************************************************************)

\* The dicts save_credentials is given.
CredentialSamples ==
  { <<>>,
    << <<<<"t">>, JsonStr(<<"a">>)>> >>,
    << <<<<"t">>, JsonStr(<<"b", "\"", "\\", "\n", "é">>)>> >>,
    << <<<<"t">>, JsonStr(<<>>)>>, <<<<"r">>, JsonNull>> >>,
    << <<<<"t">>, JsonStr(<<"a">>)>>, <<<<"r">>, JsonNull>>,
       <<<<"s">>, JsonList(<< <<"x">>, <<"y", ",">> >>)>> >>,
    << <<<<"s">>, JsonList(<<>>)>>, <<<<"t">>, JsonStr(<<" ", "{">>)>> >> }

ConfigInit == RegistryIdle /\ CliIdle /\ LibIdle

\* A call save_credentials(credentials).
SaveCredentials ==
  /\ Len(fn_log) < MaxCalls
  /\ \E credentials \in CredentialSamples :
       /\ fn' = "save_credentials"
       /\ fn_args' = <<credentials>>
       /\ credentials_file' = save_credentials(credentials)
       /\ fn_log' = Append(fn_log, <<"save_credentials", <<credentials>>>>)
  /\ fn_result' = <<>>
  /\ UNCHANGED <<raw, version_cache_file, clock>>
  /\ UNCHANGED <<reg_vars, cli_vars>>

\* A call load_credentials().
LoadCredentials ==
  /\ fn' = "load_credentials"
  /\ fn_args' = <<>>
  /\ fn_result' = load_credentials(credentials_file)
  /\ UNCHANGED <<raw, credentials_file, fn_log, version_cache_file, clock>>
  /\ UNCHANGED <<reg_vars, cli_vars>>

\* A call clear_credentials().
ClearCredentials ==
  /\ Len(fn_log) < MaxCalls
  /\ fn' = "clear_credentials"
  /\ fn_args' = <<>>
  /\ credentials_file' = clear_credentials(credentials_file)
  /\ fn_log' = Append(fn_log, <<"clear_credentials", <<>>>>)
  /\ fn_result' = <<>>
  /\ UNCHANGED <<raw, version_cache_file, clock>>
  /\ UNCHANGED <<reg_vars, cli_vars>>

ConfigNext == SaveCredentials \/ LoadCredentials \/ ClearCredentials

SpecConfig == ConfigInit /\ [][ConfigNext]_vars

(***************************************************************************)
(* _levenshtein applied to bounded inputs                                  *)
(***************************************************************************)

\* The strings compared have at most MaxWordLen characters.
MaxWordLen == 3

\* The strings over two letters, the empty string among them.
Words == UNION {[1..n -> {"a", "b"}] : n \in 0..MaxWordLen}

LevInit == RegistryIdle /\ CliIdle /\ LibIdle

\* A call _levenshtein(s1, s2).
Levenshtein ==
  /\ \E s1 \in Words, s2 \in Words :
       /\ fn' = "_levenshtein"
       /\ fn_args' = <<s1, s2>>
       /\ fn_result' = <<_levenshtein(s1, s2)>>
  /\ UNCHANGED <<raw, credentials_file, fn_log, version_cache_file, clock>>
  /\ UNCHANGED <<reg_vars, cli_vars>>

LevNext == Levenshtein

SpecLev == LevInit /\ [][LevNext]_vars

(***************************************************************************)
(* fetch_videos applied to bounded inputs                                  *)
(***************************************************************************)

\* limit: nothing asked for, fewer than a page, a page, more than two pages;
\* page_token: the first page, or a page the caller names.
FetchArgs == [limit : {0, 1, 2, 3, 50, 120}, page_token : {0, 7}]

FetchInit ==
  /\ RegistryIdle
  /\ LibIdle
  /\ cmd = "fetch_videos"
  /\ args \in FetchArgs
  /\ pc = "start"
  /\ loc = <<>>
  /\ calls = <<>>
  /\ services = {"youtube"}
  /\ output = <<>>
  /\ exit_code = -1

FetchNext == FetchStart \/ FetchUploads \/ FetchPage \/ FetchDetails

SpecFetch == FetchInit /\ [][FetchNext]_vars

\* Every request is answered: execute() blocks until it returns or raises.
SpecFetchFair == SpecFetch /\ WF_vars(FetchNext)

(***************************************************************************)
(* The moderation TUI applied to bounded inputs                            *)
(***************************************************************************)

TuiInit ==
  /\ RegistryIdle
  /\ LibIdle
  /\ cmd = "moderate"
  /\ args \in [video : BOOLEAN]
  /\ pc = "start"
  /\ loc = <<>>
  /\ calls = <<>>
  /\ services = {}
  /\ output = <<>>
  /\ exit_code = -1

TuiNext ==
  \/ ModerateStart
  \/ ModerateChannel
  \/ ModerateFetch
  \/ KeyPress
  \/ WorkerReads
  \/ WorkerSends
  \/ WorkerReceives
  \/ WorkerExits
  \/ ModerateSummary

SpecTui == TuiInit /\ [][TuiNext]_vars

(***************************************************************************)
(* Claims about the registry                                               *)
(***************************************************************************)

\* The registry keys, read off the registry data.
MetricKeySet == {METRICS[k].name : k \in 1..Len(METRICS)}

DimensionKeySet == {DIMENSIONS[k].name : k \in 1..Len(DIMENSIONS)}

\* The names of a list that are not in a key set, in input order, one entry per
\* occurrence.
UnknownNames(names, keys) == SelectSeq(names, LAMBDA n : n \notin keys)

\* msg starts with text.
StartsWith(msg, text) == Len(msg) >= Len(text) /\ SubSeq(msg, 1, Len(text)) = text

\* C2: validate_metrics / validate_dimensions return exactly one error per
\* occurrence of a name that is not a registry key, in input order (the k-th
\* error names the k-th unknown name), none for a registry key, and the empty
\* list if and only if every name is a registry key.
C2_OneErrorPerUnknownName ==
  /\ reg_op = "validate_metrics" =>
        LET unknown == UnknownNames(reg_names, MetricKeySet)
        IN  /\ Len(reg_result) = Len(unknown)
            /\ \A k \in 1..Len(unknown) :
                  StartsWith(reg_result[k], UnknownMetricText \o unknown[k] \o QuoteDotText)
            /\ (reg_result = <<>>) <=>
                  (\A k \in 1..Len(reg_names) : reg_names[k] \in MetricKeySet)
  /\ reg_op = "validate_dimensions" =>
        LET unknown == UnknownNames(reg_names, DimensionKeySet)
        IN  /\ Len(reg_result) = Len(unknown)
            /\ \A k \in 1..Len(unknown) :
                  StartsWith(reg_result[k], UnknownDimensionText \o unknown[k] \o QuoteDotText)
            /\ (reg_result = <<>>) <=>
                  (\A k \in 1..Len(reg_names) : reg_names[k] \in DimensionKeySet)

\* An unknown name given twice has been validated: two errors.
C2_Witness ==
  /\ reg_op = "validate_metrics"
  /\ Len(reg_names) = 2
  /\ reg_names[1] = reg_names[2]
  /\ reg_names[1] \notin MetricKeySet
  /\ Len(reg_result) = 2

\* The message the error contract prescribes for an unknown name, given the
\* result of the fuzzy search for it.
ContractMessage(text, name, match) ==
  IF match # None
  THEN text \o name \o QuoteDotText \o DidYouMeanText \o match \o QuoteQuestionText
  ELSE text \o name \o QuoteDotText

\* C3: the error for an unknown name is `Unknown metric '<name>'.` (resp.
\* dimension), followed by ` Did you mean '<suggestion>'?` if and only if
\* find_closest_metric (resp. find_closest_dimension) returns a match at the
\* default threshold 3, and the suggestion shown is that match.
C3_ErrorMessageForm ==
  /\ reg_op = "validate_metrics" =>
        LET unknown == UnknownNames(reg_names, MetricKeySet)
        IN  \A k \in 1..Len(reg_result) :
              /\ k <= Len(unknown)
              /\ reg_result[k] =
                   ContractMessage(UnknownMetricText, unknown[k],
                                   find_closest_metric(unknown[k], 3))
  /\ reg_op = "validate_dimensions" =>
        LET unknown == UnknownNames(reg_names, DimensionKeySet)
        IN  \A k \in 1..Len(reg_result) :
              /\ k <= Len(unknown)
              /\ reg_result[k] =
                   ContractMessage(UnknownDimensionText, unknown[k],
                                   find_closest_dimension(unknown[k], 3))

\* A name with a suggestion and a name without one have been validated.
C3_Witness ==
  /\ reg_op = "validate_metrics"
  /\ Len(reg_result) = 2
  /\ find_closest_metric(reg_names[1], 3) # None
  /\ find_closest_metric(reg_names[2], 3) = None

\* The (case-insensitive) edit distance of the fuzzy search.
Distance(name, candidate) == _levenshtein(lower(name), lower(candidate))

\* What C4 asks of a search result, with the distance to every key in dist
\* and the least of them in least.
ClosestWithin(result, name, keys, max_distance) ==
  LET dist == [c \in keys |-> Distance(name, c)]
      least == CHOOSE d \in {dist[c] : c \in keys} : \A c \in keys : d <= dist[c]
  IN  /\ least <= max_distance => result \in keys /\ dist[result] = least
      /\ least > max_distance => result = None
      /\ result # None => result \in keys /\ dist[result] <= max_distance

\* C4: find_closest_metric / find_closest_dimension return a registry name at
\* the least edit distance from the name when that distance is at most
\* max_distance, None when every candidate is farther, and never a candidate
\* farther than max_distance.
C4_ClosestWithinThreshold ==
  /\ reg_op = "find_closest_metric" =>
        ClosestWithin(reg_result, reg_names[1], MetricKeySet, reg_max_distance)
  /\ reg_op = "find_closest_dimension" =>
        ClosestWithin(reg_result, reg_names[1], DimensionKeySet, reg_max_distance)

\* A search has found a match exactly at the threshold (`veiws`, two edits
\* from `views`, with max_distance 2).
C4_Witness ==
  /\ reg_op = "find_closest_metric"
  /\ reg_result # None
  /\ reg_names[1] \notin MetricKeySet
  /\ Distance(reg_names[1], reg_result) = reg_max_distance
  /\ reg_max_distance = 2

(***************************************************************************)
(* Claims about the commands                                               *)
(***************************************************************************)

\* The elements of a sequence.
Range(s) == {s[k] : k \in 1..Len(s)}

\* The names given with --metrics / --dimensions, as the options spell them.
GivenMetrics == _parse_comma_list(args.metrics_str)

GivenDimensions ==
  IF args.dimensions_str = None THEN <<>> ELSE _parse_comma_list(args.dimensions_str)

\* Input validation fails: no metric, an unknown metric, an unknown dimension.
ValidationFails ==
  \/ GivenMetrics = <<>>
  \/ Range(GivenMetrics) \ MetricKeySet # {}
  \/ Range(GivenDimensions) \ DimensionKeySet # {}

\* C1: in `analytics query`, whenever input validation fails (empty metric
\* list, unknown metric name, unknown dimension name) the command exits
\* non-zero and attempts no network call: no service is constructed and no
\* request (channel lookup, reports.query) is executed in the invocation.
C1_ValidationFailsBeforeNetwork ==
  (cmd = "query" /\ ValidationFails) =>
     /\ services = {}
     /\ calls = <<>>
     /\ pc \in {"start", "exited"}
     /\ pc = "exited" => exit_code # 0

\* A query with known metrics and an unknown dimension has ended.
C1_Witness ==
  /\ cmd = "query"
  /\ GivenMetrics # <<>>
  /\ Range(GivenMetrics) \subseteq MetricKeySet
  /\ Range(GivenDimensions) \ DimensionKeySet # {}
  /\ pc = "exited"
  /\ exit_code = 1

\* The requests of a method executed so far.
CallsOf(method) == {i \in 1..Len(calls) : calls[i].method = method}

\* C5: a reports.query request whose dimension list includes `video` is only
\* ever sent with both sort and maxResults set (a query with `video` lacking
\* one of them is rejected before any network call).
C5_VideoNeedsSortAndLimit ==
  \A i \in CallsOf("reports.query") :
     ("dimensions" \in DOMAIN calls[i].params
        /\ <<"v","i","d","e","o">> \in Range(split(calls[i].params.dimensions, ","))) =>
     /\ "sort" \in DOMAIN calls[i].params
     /\ "maxResults" \in DOMAIN calls[i].params

\* Some filter token given lacks `==`.
BadFilterGiven == \E k \in 1..Len(args.filter_list) : ~HasEqEq(args.filter_list[k])

\* The invalid-filter-format error has been reported.
InvalidFilterReported == \E k \in 1..Len(output) : output[k].kind = "invalid_filter"

\* C6: in `analytics query`, if a filter token lacks `==`, the command exits
\* non-zero and sends no query, and, provided the validation of the metrics
\* and dimensions has passed, what it reports is the invalid-filter-format
\* error for the first such token; when all tokens are well-formed, they are
\* sent joined by `;` in the order given.
C6_FilterSyntax ==
  cmd = "query" =>
     /\ BadFilterGiven =>
          /\ calls = <<>>
          /\ pc \in {"start", "exited"}
          /\ pc = "exited" => exit_code # 0
          /\ (pc = "exited" /\ ~ValidationFails) =>
                \E k \in 1..Len(args.filter_list) :
                   /\ ~HasEqEq(args.filter_list[k])
                   /\ \A h \in 1..(k - 1) : HasEqEq(args.filter_list[h])
                   /\ output = <<Msg("invalid_filter", args.filter_list[k])>>
     /\ ~BadFilterGiven =>
          \A i \in CallsOf("reports.query") :
             IF args.filter_list = <<>>
             THEN "filters" \notin DOMAIN calls[i].params
             ELSE /\ "filters" \in DOMAIN calls[i].params
                  /\ split(calls[i].params.filters, ";") = args.filter_list

\* A query with known names whose second filter token lacks `==` has ended.
C6_Witness ==
  /\ cmd = "query"
  /\ ~ValidationFails
  /\ Len(args.filter_list) = 2
  /\ HasEqEq(args.filter_list[1])
  /\ ~HasEqEq(args.filter_list[2])
  /\ pc = "exited"
  /\ InvalidFilterReported

\* C6 as stated: whenever a filter token lacks `==`, the command reports the
\* invalid-filter-format error.
C6_AlwaysReportsInvalidFilter ==
  (cmd = "query" /\ BadFilterGiven /\ pc = "exited") => InvalidFilterReported

\* C7: in `videos update` and `videos search-replace`, a videos.update
\* request is issued only in an invocation run with --execute.
C7_DryRunByDefault ==
  CallsOf("videos.update") # {} => (cmd \in {"update", "search-replace"} /\ args.execute)

\* A search-replace without --execute has ended after scanning two pages and
\* finding two videos to change.
C7_Witness ==
  /\ cmd = "search-replace"
  /\ ~args.execute
  /\ pc = "exited"
  /\ Cardinality(CallsOf("playlistItems.list")) >= 2
  /\ Len(loc.changes) >= 2

\* Request i was issued by the apply loop and failed with quotaExceeded.
QuotaFailureInApplyLoop(i) ==
  /\ calls[i].change > 0
  /\ calls[i].execution.kind = "HttpError"
  /\ calls[i].execution.error.reason = "quotaExceeded"

\* C8: in the search-replace apply loop a quota-exceeded failure of a request
\* halts the loop at once: it is the last request of the invocation.
C8_QuotaHaltsApplyLoop ==
  \A i \in 1..Len(calls) :
     QuotaFailureInApplyLoop(i) => (i = Len(calls) /\ pc = "exited" /\ exit_code # 0)

\* The quota ran out in the apply loop with changes still pending.
C8_Witness ==
  /\ cmd = "search-replace"
  /\ calls # <<>>
  /\ QuotaFailureInApplyLoop(Len(calls))
  /\ calls[Len(calls)].execution.error.status = 403
  /\ loc.idx < Len(loc.changes)
  /\ pc = "exited"

\* C9: when a quota-exceeded failure interrupts the apply loop, the counts
\* applied so far (updated, failed) are reported before the process exits,
\* at whatever position of the loop the failure occurs.
C9_PartialProgressReported ==
  \A i \in 1..Len(calls) :
     (QuotaFailureInApplyLoop(i) /\ pc = "exited") =>
        \E k \in 1..Len(output) :
           /\ output[k].kind = "partial_progress"
           /\ output[k].text = <<loc.success, loc.failed>>

\* The request did not return its response.
Failed(call) == call.execution.kind # "response"

\* A failure the apply loop of search-replace counts and goes on from: an
\* HttpError that handle_api_error raises again and whose reason is not
\* quotaExceeded.
CountedFailure(call) ==
  /\ cmd = "search-replace"
  /\ call.change > 0
  /\ call.execution.kind = "HttpError"
  /\ ~(call.execution.error.status = 403
         /\ call.execution.error.reason \in {"quotaExceeded", "forbidden"})
  /\ call.execution.error.reason # "quotaExceeded"

\* C10: a failed request is the last of the invocation, which ends non-zero,
\* unless it is a failure the search-replace apply loop counts: then every
\* later request is for a later pending change.  No request is retried.
C10_FailuresTerminalOrCounted ==
  \A i \in 1..Len(calls) :
     Failed(calls[i]) =>
        IF CountedFailure(calls[i])
        THEN \A j \in (i + 1)..Len(calls) : calls[j].change > calls[i].change
        ELSE i = Len(calls) /\ pc = "exited" /\ exit_code # 0

\* The apply loop went on after a failure, and ended on an expired session.
C10_Witness ==
  /\ cmd = "search-replace"
  /\ pc = "exited"
  /\ \E i \in 1..(Len(calls) - 1) :
        /\ Failed(calls[i])
        /\ calls[i + 1].change = calls[i].change + 1
  /\ calls[Len(calls)].execution.kind = "RefreshError"

\* C10 as stated: once a request has failed, no further request is issued.
C10_EveryFailureTerminal ==
  \A i \in 1..Len(calls) : Failed(calls[i]) => i = Len(calls)

(***************************************************************************)
(* Claims about api.py                                                     *)
(***************************************************************************)

\* C11: handle_api_error ends the process (SystemExit 1) for a 403 whose
\* reason is quotaExceeded or forbidden and raises the same HttpError again
\* for every other status or reason; api returns the result of the request
\* unchanged when it executes, and ends the process (SystemExit 1) on an
\* expired or revoked session.
C11_HandleApiError ==
  /\ fn = "handle_api_error" =>
        LET error == fn_args[1]
        IN  IF error.status = 403 /\ error.reason \in {"quotaExceeded", "forbidden"}
            THEN fn_result.kind = "SystemExit" /\ fn_result.value = 1
            ELSE fn_result.kind = "raise" /\ fn_result.value = error
  /\ fn = "api" =>
        LET execution == fn_args[1]
        IN  CASE execution.kind = "response" ->
                   fn_result.kind = "return" /\ fn_result.value = execution.response
              [] execution.kind = "RefreshError" ->
                   fn_result.kind = "SystemExit" /\ fn_result.value = 1
              [] execution.kind = "HttpError" ->
                   IF /\ execution.error.status = 403
                      /\ execution.error.reason \in {"quotaExceeded", "forbidden"}
                   THEN fn_result.kind = "SystemExit" /\ fn_result.value = 1
                   ELSE fn_result.kind = "raise" /\ fn_result.value = execution.error

\* handle_api_error has been applied to a 403 with another reason.
C11_Witness ==
  /\ fn = "handle_api_error"
  /\ fn_args[1].status = 403
  /\ fn_args[1].reason = "rateLimitExceeded"
  /\ fn_result.kind = "raise"

\* int(s) for a string of digits.
RECURSIVE int_of(_)
int_of(s) ==
  IF s = <<>> THEN 0
  ELSE 10 * int_of(SubSeq(s, 1, Len(s) - 1))
         + (CHOOSE d \in 0..9 : Digits[d + 1] = s[Len(s)])

\* The number of the day year-month-day, days being counted from 1970-01-01.
days_from_civil(year, month, day) ==
  LET y == IF month <= 2 THEN year - 1 ELSE year
      era == y \div 400
      yoe == y - era * 400
      doy == (153 * (IF month > 2 THEN month - 3 ELSE month + 9) + 2) \div 5 + day - 1
      doe == yoe * 365 + yoe \div 4 - yoe \div 100 + doy
  IN  era * 146097 + doe - 719468

\* The text is YYYY-MM-DD and names the day.
IsIsoDateOf(text, days) ==
  /\ Len(text) = 10
  /\ text[5] = "-" /\ text[8] = "-"
  /\ \A k \in {1, 2, 3, 4, 6, 7, 9, 10} : \E d \in 1..10 : Digits[d] = text[k]
  /\ int_of(SubSeq(text, 6, 7)) \in 1..12
  /\ int_of(SubSeq(text, 9, 10)) \in 1..31
  /\ days_from_civil(int_of(SubSeq(text, 1, 4)), int_of(SubSeq(text, 6, 7)),
                     int_of(SubSeq(text, 9, 10))) = days

\* C12: in `analytics query` the startDate sent is --start when given and
\* otherwise the day --days before today; the endDate sent is --end when
\* given and otherwise today; --days has no effect on startDate when --start
\* is given.  Today is the day the clock shows when the date is built.
C12_ExplicitDatesOverride ==
  \A i \in CallsOf("reports.query") :
     /\ IF args.start # None
        THEN calls[i].params.startDate = args.start
        ELSE IsIsoDateOf(calls[i].params.startDate, loc.now_start - args.days)
     /\ IF args.end # None
        THEN calls[i].params.endDate = args.end
        ELSE IsIsoDateOf(calls[i].params.endDate, loc.now_end)

\* A query with --start and --days but no --end has been sent.
C12_Witness ==
  /\ cmd = "query"
  /\ CallsOf("reports.query") # {}
  /\ args.start # None
  /\ args.days = 366
  /\ args.end = None

(***************************************************************************)
(* Claims about ui.py                                                      *)
(***************************************************************************)

\* The text is the plain decimal of n.
IsDecimalOf(text, n) ==
  LET digits == IF n < 0 THEN Tail(text) ELSE text
  IN  /\ text # <<>>
      /\ (n < 0) <=> (text[1] = "-")
      /\ digits # <<>>
      /\ \A k \in 1..Len(digits) : \E d \in 1..10 : Digits[d] = digits[k]
      /\ Len(digits) > 1 => digits[1] # "0"
      /\ int_of(digits) = (IF n < 0 THEN -n ELSE n)

\* The text is n / unit rounded to one decimal (to either neighbour when the
\* quotient lies halfway) followed by the suffix.
IsAbbreviationOf(text, n, unit, suffix) ==
  /\ Len(text) >= 4
  /\ text[Len(text)] = suffix
  /\ text[Len(text) - 2] = "."
  /\ LET whole == SubSeq(text, 1, Len(text) - 3)
         tenth == <<text[Len(text) - 1]>>
         step == unit \div 10
     IN  /\ IsDecimalOf(whole, int_of(whole))
         /\ \E d \in 1..10 : Digits[d] = tenth[1]
         /\ LET shown == (10 * int_of(whole) + int_of(tenth)) * step
            IN  2 * (IF shown > n THEN shown - n ELSE n - shown) <= step

\* The value the last set_raw_output call gave; FALSE when there was none.
LastRawSet ==
  LET sets == SelectSeq(fn_log, LAMBDA c : c[1] = "set_raw_output")
  IN  IF sets = <<>> THEN FALSE ELSE sets[Len(sets)][2]

\* C14: format_number(n) is the plain decimal of n for 0 <= n < 1000, n/1000
\* rounded to one decimal and `K` for 1000 <= n < 1000000, n/1000000 rounded
\* to one decimal and `M` from 1000000 on; in raw mode it is the plain
\* decimal of n for every n; and the raw flag is what the last
\* set_raw_output call set (off when there was none).
C14_FormatNumber ==
  /\ raw = LastRawSet
  /\ fn = "format_number" =>
        LET n == fn_args[1]
        IN  IF raw THEN IsDecimalOf(fn_result, n)
            ELSE /\ (0 <= n /\ n < 1000) => IsDecimalOf(fn_result, n)
                 /\ (1000 <= n /\ n < 1000000) => IsAbbreviationOf(fn_result, n, 1000, "K")
                 /\ n >= 1000000 => IsAbbreviationOf(fn_result, n, 1000000, "M")

\* After set_raw_output(True), format_number(2500000) gave 2500000.
C14_Witness ==
  /\ fn = "format_number"
  /\ raw
  /\ fn_args[1] = 2500000
  /\ fn_result = <<"2","5","0","0","0","0","0">>

(***************************************************************************)
(* Claims about the output of `analytics query`                            *)
(***************************************************************************)

\* The query has returned a response and printed it.
QueryPrinted ==
  /\ cmd = "query"
  /\ pc = "exited"
  /\ calls # <<>>
  /\ calls[Len(calls)].method = "reports.query"
  /\ calls[Len(calls)].execution.kind = "response"

\* The response that was printed.
PrintedResponse == calls[Len(calls)].execution.response

\* The lines of a text whose lines end in \r\n.
CsvLines(text) ==
  LET pieces == split(text, "\n")
  IN  [k \in 1..(Len(pieces) - 1) |-> SubSeq(pieces[k], 1, Len(pieces[k]) - 1)]

\* The fields of a CSV line, read from character k on: a field in quotes
\* ends at a quote that is not doubled.
RECURSIVE CsvFields(_, _, _, _, _)
CsvFields(line, k, quoted, current, fields) ==
  IF k > Len(line) THEN Append(fields, current)
  ELSE IF quoted
       THEN IF line[k] = "\"" /\ k < Len(line) /\ line[k + 1] = "\""
            THEN CsvFields(line, k + 2, TRUE, Append(current, "\""), fields)
            ELSE IF line[k] = "\""
            THEN CsvFields(line, k + 1, FALSE, current, fields)
            ELSE CsvFields(line, k + 1, TRUE, Append(current, line[k]), fields)
       ELSE IF line[k] = ","
            THEN CsvFields(line, k + 1, FALSE, <<>>, Append(fields, current))
            ELSE IF line[k] = "\"" /\ current = <<>>
            THEN CsvFields(line, k + 1, TRUE, current, fields)
            ELSE CsvFields(line, k + 1, FALSE, Append(current, line[k]), fields)

\* The value as text, as CSV carries it: digits for an int, digits with a
\* decimal point for a float (eighths), the characters of a str.
ValueText(value) ==
  CASE value.t = "str" -> value.s
    [] value.t = "int" -> str_int(value.n)
    [] value.t = "float" ->
         CHOOSE text \in {float_str(value.n)} :
            \E dot \in 1..Len(text) :
               /\ text[dot] = "."
               /\ LET frac == SubSeq(text, dot + 1, Len(text))
                      scale == CASE Len(frac) = 1 -> 100 [] Len(frac) = 2 -> 10 [] Len(frac) = 3 -> 1
                  IN  8 * (1000 * int_of(SubSeq(text, 1, dot - 1)) + scale * int_of(frac))
                        = 1000 * value.n

\* C13: for a response with column headers H and rows R, the JSON output is
\* a list with one record per row, in row order, each mapping H[i] to the
\* i-th value of the row unchanged; the first line of the CSV output is
\* exactly the header names joined by commas, and one line per row follows,
\* in row order.
C13_JsonAndCsvOutput ==
  QueryPrinted =>
     LET H == PrintedResponse.headers
         R == PrintedResponse.rows
     IN  /\ args.output = "json" =>
              /\ Len(output) = 1
              /\ output[1].kind = "json"
              /\ Len(output[1].text) = Len(R)
              /\ \A k \in 1..Len(R) :
                    /\ Len(output[1].text[k]) = Len(H)
                    /\ \A i \in 1..Len(H) :
                          \E p \in 1..Len(output[1].text[k]) :
                             /\ output[1].text[k][p][1] = H[i]
                             /\ output[1].text[k][p][2] = R[k][i]
         /\ args.output = "csv" =>
              /\ Len(output) = 1
              /\ output[1].kind = "csv"
              /\ LET lines == CsvLines(output[1].text)
                 IN  /\ Len(lines) = 1 + Len(R)
                     /\ lines[1] = join(<<",">>, H)
                     /\ \A k \in 1..Len(R) :
                           CsvFields(lines[k + 1], 1, FALSE, <<>>, <<>>)
                             = [i \in 1..Len(R[k]) |-> ValueText(R[k][i])]

\* A CSV of two different rows, the first with a comma in a value, has been
\* printed.
C13_Witness ==
  /\ QueryPrinted
  /\ args.output = "csv"
  /\ Len(PrintedResponse.rows) = 2
  /\ PrintedResponse.rows[1] # PrintedResponse.rows[2]
  /\ Len(PrintedResponse.headers) = 2
  /\ PrintedResponse.rows[1][1] = StrCell(<<"a", ",", "b">>)

\* C15: in table output every cell with a numeric value (an int or a float)
\* in a column whose name contains `rate`, `percentage` or `ctr`, whatever
\* the case, carries the percent unit, and every such cell in a column whose
\* name contains `cpm` carries the currency unit.
C15_UnitsByColumnName ==
  (QueryPrinted /\ args.output = "table" /\ PrintedResponse.rows # <<>>) =>
     LET H == PrintedResponse.headers
         R == PrintedResponse.rows
         cells == output[1].text.cells
     IN  \A k \in 1..Len(R) : \A i \in 1..Len(H) :
            R[k][i].t \in {"int", "float"} =>
               /\ IsPercentHeader(H[i]) => cells[k][i][Len(cells[k][i])] = "%"
               /\ (IsCurrencyHeader(H[i]) /\ ~IsPercentHeader(H[i])) => cells[k][i][1] = "$"

(***************************************************************************)
(* Claims about the scan of `videos search-replace`                        *)
(***************************************************************************)

\* The scan loop of search-replace has ended without a failed request.
ScanEnded ==
  /\ cmd = "search-replace"
  /\ \E i \in 1..Len(output) : output[i].kind \in {"no_matches", "pending", "applying"}

\* The pages of the uploads playlist the scan was given, in order.
ScannedPages ==
  SelectSeq(calls, LAMBDA c : c.method = "playlistItems.list" /\ c.execution.kind = "response")

\* At most --limit changes are collected, and each is for a field value the
\* replacement changes.
ChangesWithinLimit ==
  (cmd = "search-replace" /\ pc # "start") =>
     /\ Len(loc.changes) <= args.limit
     /\ \A k \in 1..Len(loc.changes) :
           /\ loc.changes[k].new # loc.changes[k].old
           /\ loc.changes[k].new = replace(loc.changes[k].old, args.search, args.replace)

\* C16 as stated: at most --limit pending changes are collected across all
\* pages scanned, every collected change is for a video whose field value
\* differs after the replacement, and the scan goes on to the next page while
\* fewer than --limit changes are found and the last page carried a
\* continuation token.
C16_ScanContinuesWhileToken ==
  /\ ChangesWithinLimit
  /\ (ScanEnded /\ ScannedPages # <<>> /\ Len(loc.changes) < args.limit) =>
        ScannedPages[Len(ScannedPages)].execution.response.nextPageToken = 0

\* C16 (amended): at most --limit pending changes are collected, every
\* collected change is for a video whose field value differs after the
\* replacement, and the scan goes on to the next page while fewer than
\* --limit changes are found and the last page had items and carried a
\* continuation token: a page without items ends the scan, token or not.
C16_ScanContinuesWhileItemsAndToken ==
  /\ ChangesWithinLimit
  /\ (ScanEnded /\ ScannedPages # <<>> /\ Len(loc.changes) < args.limit) =>
        LET last == ScannedPages[Len(ScannedPages)].execution.response
        IN  last.items = 0 \/ last.nextPageToken = 0
  /\ \A i \in 1..Len(ScannedPages) :
        LET page == ScannedPages[i].execution.response
        IN  (i < Len(ScannedPages)) => (page.items > 0 /\ page.nextPageToken # 0)

\* The scan went over two pages and ended on the second with fewer changes
\* than the limit.
C16_Witness ==
  /\ ScanEnded
  /\ Len(ScannedPages) = 2
  /\ Len(loc.changes) = 1
  /\ args.limit = 2

(***************************************************************************)
(* Claims about config.py                                                  *)
(***************************************************************************)

\* What load_credentials is to return after the calls of fn_log: the dict of
\* the last call if that call is a save_credentials, None otherwise.
LastSaved ==
  IF fn_log # <<>> /\ fn_log[Len(fn_log)][1] = "save_credentials"
  THEN fn_log[Len(fn_log)][2]
  ELSE <<>>

\* C17: after any sequence of save_credentials and clear_credentials calls,
\* load_credentials returns the value of the most recent save_credentials if
\* no clear_credentials followed it, and None otherwise, also when nothing
\* was ever saved; clear_credentials on absent credentials changes nothing:
\* there is a credentials file exactly when the last call was a save.
C17_CredentialsRoundTrip ==
  /\ fn = "load_credentials" => fn_result = LastSaved
  /\ (credentials_file = None) <=> (LastSaved = <<>>)

\* A dict with a string to escape has been saved over another dict and
\* loaded.
C17_Witness ==
  /\ fn = "load_credentials"
  /\ Len(fn_log) = 2
  /\ fn_log[1][1] = "save_credentials"
  /\ fn_log[2][1] = "save_credentials"
  /\ fn_log[1][2] # fn_log[2][2]
  /\ fn_result = << << <<<<"t">>, JsonStr(<<"b", "\"", "\\", "\n", "é">>)>> >> >>

(***************************************************************************)
(* Claims about the case of the names given to the fuzzy search            *)
(***************************************************************************)

\* str.upper(): the inverse of LowerOf on the ASCII letters; the upper case
\* of ß is SS.
upper(s) ==
  concat([k \in 1..Len(s) |->
            IF s[k] = "ß" THEN <<"S", "S">>
            ELSE IF \E c \in DOMAIN LowerOf : LowerOf[c] = s[k]
                 THEN <<CHOOSE c \in DOMAIN LowerOf : LowerOf[c] = s[k]>>
                 ELSE <<s[k]>>])

\* The registry names equal to name when case is ignored.
SameIgnoringCase(name, keys) ==
  {keys[k] : k \in {j \in 1..Len(keys) : lower(keys[j]) = lower(name)}}

\* C18: the fuzzy search is case-insensitive: find_closest_metric and
\* find_closest_dimension return for a name what they return for the name
\* in upper case and in lower case, and a name equal to a registry name when
\* case is ignored returns that registry name.
C18_CaseInsensitive ==
  /\ reg_op = "find_closest_metric" =>
        /\ reg_result = find_closest_metric(upper(reg_names[1]), reg_max_distance)
        /\ reg_result = find_closest_metric(lower(reg_names[1]), reg_max_distance)
        /\ \A key \in SameIgnoringCase(reg_names[1], MetricKeys) : reg_result = key
  /\ reg_op = "find_closest_dimension" =>
        /\ reg_result = find_closest_dimension(upper(reg_names[1]), reg_max_distance)
        /\ reg_result = find_closest_dimension(lower(reg_names[1]), reg_max_distance)
        /\ \A key \in SameIgnoringCase(reg_names[1], DimensionKeys) : reg_result = key

\* C18 for the names upper() and lower() make equal up to case.
C18_CaseInsensitiveAscii ==
  (/\ reg_op \in {"find_closest_metric", "find_closest_dimension"}
   /\ lower(upper(reg_names[1])) = lower(reg_names[1])) => C18_CaseInsensitive

(***************************************************************************)
(* Claims about ties in the fuzzy search                                   *)
(***************************************************************************)

\* The candidates at the same distance from name as the result.
Ties(result, name, candidates) ==
  {k \in 1..Len(candidates) : Distance(name, candidates[k]) = Distance(name, result)}

\* The result is the first, in candidate order, of the candidates at its
\* distance, and no earlier candidate is nearer.
FirstOfTies(result, name, candidates) ==
  result # None =>
     \E k \in 1..Len(candidates) :
        /\ candidates[k] = result
        /\ \A j \in 1..(k - 1) : Distance(name, candidates[j]) > Distance(name, result)

\* C19: when several candidates are at the same least edit distance from the
\* name, _find_closest returns the one that comes first in the candidate
\* order (the order of definition in the registry): a later candidate
\* replaces the best so far only if it is strictly nearer.
C19_TiesFirstInOrder ==
  /\ reg_op = "find_closest_metric" => FirstOfTies(reg_result, reg_names[1], MetricKeys)
  /\ reg_op = "find_closest_dimension" => FirstOfTies(reg_result, reg_names[1], DimensionKeys)

\* `da` is one edit from `day` and from `dma`: the search has returned one of
\* two candidates at the same distance.
C19_Witness ==
  /\ reg_op = "find_closest_dimension"
  /\ reg_names[1] = <<"d", "a">>
  /\ reg_result # None
  /\ Cardinality(Ties(reg_result, reg_names[1], DimensionKeys)) >= 2

(***************************************************************************)
(* Claims about the registry data                                          *)
(***************************************************************************)

\* No two entries of a collection have the same name.
NoDuplicateNames(entries) ==
  Cardinality({entries[k].name : k \in 1..Len(entries)}) = Len(entries)

\* C20: at load and after any sequence of registry operations (validation,
\* fuzzy search, the discovery commands) the registry is what was loaded:
\* the group of every metric is in METRIC_GROUPS and the group of every
\* dimension is in DIMENSION_GROUPS, no two entries of a collection share a
\* name, and every metric of the group `revenue` is flagged monetary.
C20_RegistryInvariants ==
  /\ registry = Loaded
  /\ \A k \in 1..Len(registry.METRICS) :
        \E g \in 1..Len(registry.METRIC_GROUPS) :
           registry.METRIC_GROUPS[g] = registry.METRICS[k].group
  /\ \A k \in 1..Len(registry.DIMENSIONS) :
        \E g \in 1..Len(registry.DIMENSION_GROUPS) :
           registry.DIMENSION_GROUPS[g] = registry.DIMENSIONS[k].group
  /\ NoDuplicateNames(registry.METRICS)
  /\ NoDuplicateNames(registry.DIMENSIONS)
  /\ \A k \in 1..Len(registry.METRICS) :
        registry.METRICS[k].group = "revenue" => registry.METRICS[k].monetary

\* The metrics of the group `revenue` have been listed: there are eight.
C20_Witness ==
  /\ cmd = "metrics"
  /\ pc = "exited"
  /\ exit_code = 0
  /\ args.group = "revenue"
  /\ args.name = None
  /\ args.output = "json"
  /\ Len(output) = 1
  /\ Len(output[1].text) = 8

(***************************************************************************)
(* Claims about the dimensions of a query                                  *)
(***************************************************************************)

\* The names of the dimensions flagged filter_only in the registry.
FilterOnlyNames ==
  {DIMENSIONS[k].name : k \in {j \in 1..Len(DIMENSIONS) : DIMENSIONS[j].filter_only}}

\* C21: a filter-only dimension (continent, subContinent, group) is usable
\* only as a filter: `analytics query` never sends a reports.query request
\* whose `dimensions` parameter names a dimension flagged filter_only.
C21_FilterOnlyNeverADimension ==
  \A i \in CallsOf("reports.query") :
     "dimensions" \in DOMAIN calls[i].params =>
        Range(split(calls[i].params.dimensions, ",")) \cap FilterOnlyNames = {}

\* The number of the day the text YYYY-MM-DD names.
DayOf(text) ==
  days_from_civil(int_of(SubSeq(text, 1, 4)), int_of(SubSeq(text, 6, 7)),
                  int_of(SubSeq(text, 9, 10)))

\* C28: every reports.query request `analytics query` sends with --days >= 0
\* has startDate <= endDate, whichever of --start, --end and --days are
\* given.
C28_StartNotAfterEnd ==
  \A i \in CallsOf("reports.query") :
     (cmd = "query" /\ args.days >= 0) =>
        DayOf(calls[i].params.startDate) <= DayOf(calls[i].params.endDate)

\* C28 for the invocations without --start and --end, the clock not passing
\* midnight between its two readings.
C28_StartNotAfterEndByDefault ==
  \A i \in CallsOf("reports.query") :
     (cmd = "query" /\ args.days >= 0 /\ args.start = None /\ args.end = None
        /\ loc.now_start = loc.now_end) =>
        DayOf(calls[i].params.startDate) <= DayOf(calls[i].params.endDate)

(***************************************************************************)
(* Claims about fetch_videos                                                *)
(***************************************************************************)

PlaylistCalls == CallsOf("playlistItems.list")

\* The videos collected before request i: the items of the pages before it.
RECURSIVE ItemsOfPages(_)
ItemsOfPages(pages) ==
  IF pages = {} THEN 0
  ELSE LET j == CHOOSE k \in pages : TRUE
       IN  (IF calls[j].execution.kind = "response"
            THEN calls[j].execution.response.items ELSE 0)
           + ItemsOfPages(pages \ {j})

CollectedBefore(i) == ItemsOfPages({j \in PlaylistCalls : j < i})

\* The page requested before request i (0: none).
PreviousPage(i) ==
  IF {j \in PlaylistCalls : j < i} = {} THEN 0
  ELSE CHOOSE j \in PlaylistCalls : j < i /\ \A k \in PlaylistCalls : k < i => k <= j

\* Every page so far carried at most maxResults items.
PagesHonourMaxResults ==
  \A i \in PlaylistCalls :
     calls[i].execution.kind = "response" =>
        calls[i].execution.response.items <= calls[i].params.maxResults

\* C23, the pages: a page is requested only while fewer than `limit` videos
\* are collected, for min(limit - collected, 50) items; the first page with
\* the page token given, every other page only after a page that returned
\* items and a nextPageToken, with that token; and when every page honoured
\* maxResults at most `limit` videos are returned.
C23_Pages ==
  /\ \A i \in PlaylistCalls :
        /\ CollectedBefore(i) < args.limit
        /\ calls[i].params.maxResults = Min(args.limit - CollectedBefore(i), 50)
        /\ calls[i].params.maxResults >= 1
        /\ LET j == PreviousPage(i)
           IN  IF j = 0
               THEN calls[i].params.pageToken = args.page_token
               ELSE /\ calls[j].execution.kind = "response"
                    /\ calls[j].execution.response.items > 0
                    /\ calls[j].execution.response.nextPageToken # 0
                    /\ calls[i].params.pageToken = calls[j].execution.response.nextPageToken
  /\ (pc = "returned" /\ PagesHonourMaxResults) => Len(loc.all_videos) <= args.limit
  /\ pc = "returned" =>
        \/ PlaylistCalls = {}
        \/ Len(loc.all_videos) = CollectedBefore(Len(calls) + 1)

\* C23: fetch_videos paginates sequentially, stops when a page has no
\* nextPageToken or the limit is reached, asks each page for
\* min(limit - collected, 50) items, returns at most `limit` videos when the
\* pages honour maxResults, and terminates for every limit.
C23_Pagination == [] C23_Pages /\ <>(pc \in {"returned", "exited"})

\* Several pages were fetched and the limit of three videos ended the loop
\* although the last page had a nextPageToken.
C23_Witness ==
  /\ pc = "returned"
  /\ args.limit = 3
  /\ Cardinality(PlaylistCalls) >= 2
  /\ Len(loc.all_videos) = 3
  /\ loc.next_page_token # 0

(***************************************************************************)
(* Claims about the summary of search-replace                               *)
(***************************************************************************)

\* The summary lines `Done: ... updated, ... failed` printed.
DoneLines == {k \in 1..Len(output) : output[k].kind = "done"}

\* The videos.update requests that succeeded.
UpdatesSucceeded ==
  {i \in CallsOf("videos.update") : calls[i].execution.kind = "response"}

\* C27: when `videos search-replace --execute` runs to completion, the
\* numbers of the summary add up to the number of pending changes, and the
\* number updated is the number of videos.update requests that succeeded.
C27_SummaryAccountsForEveryChange ==
  \A k \in DoneLines :
     (cmd = "search-replace" /\ pc = "exited") =>
        /\ output[k].text[1] + output[k].text[2] = Len(loc.changes)
        /\ output[k].text[1] = Cardinality(UpdatesSucceeded)

\* C27 for its second half, and the first half as the code has it: the
\* changes of the summary and the videos found gone when their change was
\* to be applied add up to the number of pending changes.
C27_SummaryAndVideosGone ==
  \A k \in DoneLines :
     (cmd = "search-replace" /\ pc = "exited") =>
        /\ output[k].text[1] = Cardinality(UpdatesSucceeded)
        /\ output[k].text[1] + output[k].text[2] <= Len(loc.changes)

(***************************************************************************)
(* Claims about the abbreviated numbers                                     *)
(***************************************************************************)

\* The whole part of an abbreviated number `<whole>.<tenth><suffix>`.
WholePart(text) == int_of(SubSeq(text, 1, Len(text) - 3))

\* C30: in non-raw mode the numeric part of a number abbreviated with K is
\* below 1000: no n >= 1000 is displayed as `1000.0K` or larger.
C30_AbbreviatedBelowThousand ==
  (fn = "format_number" /\ ~raw /\ fn_args[1] >= 1000
     /\ fn_result[Len(fn_result)] = "K") =>
     WholePart(fn_result) < 1000

\* C30 for the numbers below 999950, which the rounding to one decimal
\* leaves below 1000.0 thousands.
C30_AbbreviatedBelowThousandUpTo999949 ==
  (fn = "format_number" /\ ~raw /\ fn_args[1] >= 1000 /\ fn_args[1] < 999950
     /\ fn_result[Len(fn_result)] = "K") =>
     WholePart(fn_result) < 1000

(***************************************************************************)
(* Claims about the edit distance                                           *)
(***************************************************************************)

\* The classic edit distance of s and t: the least number of insertions,
\* deletions and substitutions of one character that turn s into t.
RECURSIVE EditDistance(_, _)
EditDistance(s, t) ==
  IF s = <<>> THEN Len(t)
  ELSE IF t = <<>> THEN Len(s)
  ELSE IF Head(s) = Head(t) THEN EditDistance(Tail(s), Tail(t))
  ELSE 1 + Min(EditDistance(Tail(s), t),
               Min(EditDistance(s, Tail(t)), EditDistance(Tail(s), Tail(t))))

\* C24: _levenshtein(s1, s2) is the classic edit distance; it is 0 exactly
\* when s1 = s2, the same for (s2, s1), the length of the other string when
\* one string is empty, and at most the length of the longer string.
C24_ClassicEditDistance ==
  fn = "_levenshtein" =>
    LET s1 == fn_args[1]
        s2 == fn_args[2]
        d == fn_result[1]
    IN  /\ d = EditDistance(s1, s2)
        /\ (d = 0) <=> (s1 = s2)
        /\ d = _levenshtein(s2, s1)
        /\ Len(s1) = 0 => d = Len(s2)
        /\ Len(s2) = 0 => d = Len(s1)
        /\ d <= (IF Len(s1) < Len(s2) THEN Len(s2) ELSE Len(s1))

\* The distance of two strings of different lengths, the shorter one given
\* first, that needs a substitution as well as an insertion.
C24_Witness ==
  /\ fn = "_levenshtein"
  /\ fn_args = << <<"a", "b">>, <<"b", "a", "a">> >>
  /\ fn_result = <<2>>

(***************************************************************************)
(* version.py: the latest version and its cache                            *)
(***************************************************************************)

\* CACHE_DURATION (version.py:12), in hours.
CACHE_DURATION == 24

\* datetime.isoformat() of the datetime of an hour (no microseconds).
isoformat(hour) ==
  strftime(hour \div 24) \o <<"T">> \o zfill(str_nat(hour % 24), 2)
    \o <<":", "0", "0", ":", "0", "0">>

\* datetime.fromisoformat(text): <<>> when it raises, <<hour>> otherwise.
fromisoformat(text) ==
  IF /\ Len(text) = 19
     /\ \A k \in {1, 2, 3, 4, 6, 7, 9, 10, 12, 13, 15, 16, 18, 19} :
           \E d \in 1..10 : Digits[d] = text[k]
     /\ text[5] = "-" /\ text[8] = "-" /\ text[11] = "T"
     /\ text[14] = ":" /\ text[17] = ":"
  THEN <<DayOf(SubSeq(text, 1, 10)) * 24 + int_of(SubSeq(text, 12, 13))>>
  ELSE <<>>

\* json.dumps(cache) (version.py:44): the separators are `, ` and `: `.
dumps_compact(d) ==
  <<"{">>
    \o join(<<",", " ">>,
            [k \in 1..Len(d) |-> dumps_str(d[k][1]) \o <<":", " ">> \o dumps_str(d[k][2].s)])
    \o <<"}">>

\* json.loads(text) raises nothing: of the texts a write can leave, the ones
\* cut off lack the closing brace.
json_decodes(text) == text # <<>> /\ text[1] = "{" /\ text[Len(text)] = "}"

\* key in d, and d[key].
HasKey(d, key) == \E k \in 1..Len(d) : d[k][1] = key

Item(d, key) == d[CHOOSE k \in 1..Len(d) : d[k][1] = key][2]

\* _load_cache (version.py:29-35): <<>> for None, <<dict>> otherwise.
_load_cache(file) ==
  IF file = None THEN <<>>
  ELSE IF ~json_decodes(file) THEN <<>>
  ELSE <<loads(file)>>

\* The text _save_cache writes (version.py:38-44), now being what
\* datetime.now() reads.
_save_cache(latest_version, now) ==
  dumps_compact(<< <<<<"l","a","t","e","s","t","_","v","e","r","s","i","o","n">>, JsonStr(latest_version)>>,
                   <<<<"c","h","e","c","k","e","d","_","a","t">>, JsonStr(isoformat(now))>> >>)

\* _is_cache_valid counting a cache of exactly one day as valid.
_is_cache_valid_up_to_a_day(cache, now) ==
  /\ HasKey(cache, <<"c","h","e","c","k","e","d","_","a","t">>)
  /\ Item(cache, <<"c","h","e","c","k","e","d","_","a","t">>).t = "str"
  /\ fromisoformat(Item(cache, <<"c","h","e","c","k","e","d","_","a","t">>).s) # <<>>
  /\ now - fromisoformat(Item(cache, <<"c","h","e","c","k","e","d","_","a","t">>).s)[1] <= CACHE_DURATION

\* _is_cache_valid (version.py:47-52).
_is_cache_valid(cache, now) ==
  /\ HasKey(cache, <<"c","h","e","c","k","e","d","_","a","t">>)
  /\ Item(cache, <<"c","h","e","c","k","e","d","_","a","t">>).t = "str"
  /\ fromisoformat(Item(cache, <<"c","h","e","c","k","e","d","_","a","t">>).s) # <<>>
  /\ now - fromisoformat(Item(cache, <<"c","h","e","c","k","e","d","_","a","t">>).s)[1] < CACHE_DURATION

\* get_latest_version (version.py:55-65) with what check_pypi_version
\* returns when it is called (<<>> for None) and the hours the request
\* takes: the value returned, whether PyPI was asked, the cache file and the
\* clock afterwards.
get_latest_version(use_cache, file, now, pypi, took) ==
  LET cache == _load_cache(file)
  IN  IF use_cache /\ cache # <<>> /\ cache[1] # <<>> /\ _is_cache_valid(cache[1], now)
      THEN [value |-> IF HasKey(cache[1], <<"l","a","t","e","s","t","_","v","e","r","s","i","o","n">>)
                      THEN <<Item(cache[1], <<"l","a","t","e","s","t","_","v","e","r","s","i","o","n">>).s>> ELSE <<>>,
            fetched |-> FALSE, file |-> file, now |-> now]
      ELSE [value |-> pypi, fetched |-> TRUE,
            file |-> IF pypi # <<>> /\ pypi[1] # <<>>
                     THEN _save_cache(pypi[1], now + took) ELSE file,
            now |-> now + took]

(***************************************************************************)
(* version.py applied to bounded inputs                                    *)
(***************************************************************************)

\* The clock is followed for MaxHours hours.
MaxHours == 30

\* The hour the clock starts at: 2024-03-01T22.
FirstHour == 19783 * 24 + 22

\* The versions PyPI answers with.
Versions == {<<"1", ".", "2">>, <<"1", ".", "1", "0">>}

\* The cache files found: none, an empty one, one cut off while written, and
\* the ones written a few hours up to two days before, or by a clock that
\* was ahead.
CacheFiles ==
  {None, <<>>, SubSeq(_save_cache(<<"1", ".", "2">>, FirstHour - 1), 1, 30)}
    \cup {_save_cache(<<"1", ".", "1">>, FirstHour - age) : age \in {-2, 0, 1, 23, 24, 25, 48}}

VersionInit ==
  /\ RegistryIdle
  /\ CliIdle
  /\ fn = "none"
  /\ fn_args = <<>>
  /\ fn_result = <<>>
  /\ raw = FALSE
  /\ credentials_file = None
  /\ fn_log = <<>>
  /\ version_cache_file \in CacheFiles
  /\ clock = FirstHour

\* A call get_latest_version(use_cache).  The log holds, for each call,
\* whether PyPI was asked.
GetLatestVersion ==
  /\ Len(fn_log) < MaxCalls
  /\ clock < FirstHour + MaxHours
  /\ \E use_cache \in BOOLEAN, pypi \in {<<>>} \cup {<<v>> : v \in Versions}, took \in 0..1 :
       LET r == get_latest_version(use_cache, version_cache_file, clock, pypi, took)
       IN  /\ r.fetched \/ (pypi = <<>> /\ took = 0)
           /\ fn' = "get_latest_version"
           /\ fn_args' = <<use_cache>>
           /\ fn_result' = r.value
           /\ fn_log' = Append(fn_log, <<"get_latest_version", r.fetched>>)
           /\ version_cache_file' = r.file
           /\ clock' = r.now
  /\ UNCHANGED <<raw, credentials_file>>
  /\ UNCHANGED <<reg_vars, cli_vars>>

\* Time passes between two calls.
HoursPass ==
  /\ \E hours \in {23, 24} :
       /\ clock + hours <= FirstHour + MaxHours
       /\ clock' = clock + hours
  /\ UNCHANGED <<fn, fn_args, fn_result, raw, credentials_file, fn_log, version_cache_file>>
  /\ UNCHANGED <<reg_vars, cli_vars>>

VersionNext == GetLatestVersion \/ HoursPass

SpecVersion == VersionInit /\ [][VersionNext]_vars

(***************************************************************************)
(* Claims about the version cache                                           *)
(***************************************************************************)

\* The cache file is the entry written at some hour less than a day before
\* `now` (or by a clock ahead of it), for the version v.
CacheEntryYoungerThanADay(file, now, v) ==
  \E written \in (now - CACHE_DURATION + 1)..(now + 2) : file = _save_cache(v, written)

CachedVersions == Versions \cup {<<"1", ".", "1">>}

\* The step is a call of get_latest_version.
VersionCalled == fn_log' # fn_log /\ fn' = "get_latest_version"

\* C29: get_latest_version(use_cache=True) returns the cached version and
\* does not ask PyPI whenever the cache file holds a readable entry younger
\* than one day, and asks PyPI otherwise (also with use_cache=False); a fetch
\* that succeeds writes the fetched version and the current time to the
\* cache file, a fetch that fails returns None and leaves the file as it was.
C29_Step ==
  VersionCalled =>
    LET use_cache == fn_args'[1]
        fetched == fn_log'[Len(fn_log')][2]
        fresh == {v \in CachedVersions :
                    CacheEntryYoungerThanADay(version_cache_file, clock, v)}
    IN  IF use_cache /\ fresh # {}
        THEN /\ ~fetched
             /\ fn_result' # <<>> /\ fn_result'[1] \in fresh
             /\ version_cache_file' = version_cache_file
        ELSE /\ fetched
             /\ IF fn_result' = <<>>
                THEN version_cache_file' = version_cache_file
                ELSE /\ fn_result'[1] \in Versions
                     /\ version_cache_file' = _save_cache(fn_result'[1], clock')

C29_CacheOrFetch == [][C29_Step]_vars

\* A first call asked PyPI and wrote the cache, a second call less than a
\* day later returned the cached version without asking.
C29_Witness ==
  /\ fn = "get_latest_version"
  /\ fn_args = <<TRUE>>
  /\ Len(fn_log) = 2
  /\ fn_log[1][2] /\ ~fn_log[2][2]
  /\ fn_result = << <<"1", ".", "1", "0">> >>
  /\ clock > FirstHour + 1

(***************************************************************************)
(* Claims about the moderation TUI                                          *)
(***************************************************************************)

\* The TUI has been started (and perhaps left).
TuiStarted ==
  /\ cmd = "moderate"
  /\ \/ pc = "tui"
     \/ /\ pc = "exited"
        /\ output # <<>>
        /\ output[Len(output)].kind \in {"applied", "no_changes"}

\* The workers whose request is in flight.
InFlight == {w \in 1..Len(loc.workers) : loc.workers[w].pc = "sent"}

\* C22: at most one API request is in flight at any moment, also while the
\* moderation TUI applies the pending actions, whatever keys are pressed.
C22_OneRequestInFlight ==
  TuiStarted => Cardinality(InFlight) <= 1

\* C22 for the sessions in which `q` is pressed at most once.
C22_OneRequestInFlightOneQuit ==
  (TuiStarted /\ Cardinality({k \in 1..Len(loc.keys) : loc.keys[k] = "q"}) <= 1) =>
     Cardinality(InFlight) <= 1

\* The setModerationStatus requests that carry the comment id.
SubmissionsOf(cid) ==
  {i \in CallsOf("comments.setModerationStatus") : cid \in Range(calls[i].params.id)}

\* C25: in one session of the moderation TUI every comment id with a pending
\* action is submitted to comments.setModerationStatus at most once, with
\* one status, whatever keys are pressed.
C25_SubmittedAtMostOnce ==
  TuiStarted =>
    \A cid \in 1..loc.comments :
       /\ Cardinality(SubmissionsOf(cid)) <= 1
       /\ Cardinality({calls[i].params.moderationStatus : i \in SubmissionsOf(cid)}) <= 1

\* C26: when `q` is never pressed no setModerationStatus request is sent and
\* the summary, printed once the TUI is left with escape, reports that no
\* changes were applied; every pending action is for the id of a loaded
\* comment and is publish or reject.
C26_NothingAppliedWithoutQuit ==
  TuiStarted =>
    /\ \A k \in 1..Len(loc.actions) :
          /\ loc.actions[k][1] \in 1..loc.comments
          /\ loc.actions[k][2] \in {PUBLISH, REJECT}
    /\ "q" \notin Range(loc.keys) =>
          /\ CallsOf("comments.setModerationStatus") = {}
          /\ InFlight = {}
          /\ pc = "exited" => output = <<Msg("no_changes", <<>>)>>

\* Two comments were given a pending action, one of each kind, and the TUI
\* was left with escape.
C26_Witness ==
  /\ cmd = "moderate"
  /\ pc = "exited"
  /\ output = <<Msg("no_changes", <<>>)>>
  /\ loc.keys = <<"enter", "h", "escape">>
  /\ loc.actions = << <<1, PUBLISH>>, <<2, REJECT>> >>

====
